---- MODULE Spec2Model ----
(***************************************************************************)
(* Event-management backend (Express handlers over file-backed and         *)
(* database-backed stores) and the dashboard's event status classifier.    *)
(*                                                                         *)
(* JavaScript values are tagged records:                                   *)
(*   [t |-> "undefined"], [t |-> "null"], [t |-> "NaN"],                   *)
(*   [t |-> "number", x10 |-> k]  the number k/10 (x10 = 25 is 2.5),       *)
(*   [t |-> "string", s |-> cs]   cs a sequence of one-character strings.  *)
(***************************************************************************)
EXTENDS Integers, Sequences, FiniteSets, TLC

VARIABLES
    now,            \* the wall clock read by Date.now() / new Date()
    attendanceFile, \* attendance.json: [exists, data]
    ratingsFile,    \* ratings.json: [exists, data]
    res,            \* the response sent to the request handled last
    stStart,        \* getEventStatus: argument start
    stEnd,          \* getEventStatus: argument end
    stNow,          \* getEventStatus: its local now = new Date()
    stLabel,        \* getEventStatus: label returned
    dbAttendance,   \* database variant: rows of table attendance
    dbRatings,      \* database variant: rows of table ratings
    dbReq,          \* database variant: the requests in flight
    raceReq,        \* file-backed server: attend requests admitted concurrently
    commentsFile,   \* comments.json: [exists, data]
    intRows,        \* table interested_category: rows <<user_id, category_id>>
    intReq,         \* interests router: the requests in flight
    gateReq,        \* organizer router: the request passing requireOrganizer
    ckJar,          \* per client, the userId cookie its cookie jar holds
    ckUserId,       \* per client, req.userId of its request handled last
    ckSetCookie,    \* interests router: the cookie set by the last response
    ckIssued,       \* the number of ids randomUUID() has generated
    orgCommittee,   \* table committee: rows [member_id, member_name, role, created_at]
    orgExpenses,    \* table expenses: rows [expense_id, event_id, expense_category, amount, ...]
    uiEvents,       \* EventsScreen: state events
    uiSavedEvents,  \* EventsScreen: state savedEvents
    uiShowSaved,    \* EventsScreen: state showSaved
    uiSearchTerm,   \* EventsScreen: state searchTerm
    uiSelectedCategories, \* EventsScreen: state selectedCategories
    uiFiltered,     \* EventsScreen: filteredEvents of the last render
    uiRenderedAt,   \* EventsScreen: the time of the last render
    rsOpen,         \* RatingSection of event 1: mounted
    rsUserName,     \* RatingSection: state userName
    rsSelectedRating, \* RatingSection: state selectedRating
    rsHasRated,     \* RatingSection: state hasRated
    rsLoading,      \* RatingSection: state loading
    rsChecks,       \* RatingSection: check-rating requests in flight
    rsPost,         \* RatingSection: the rating POST in flight, or Null
    rsSucceeded,    \* RatingSection: a rating POST was answered ok
    uiCookie,       \* EventsScreen: Cookies.get of savedEvents
    uiEffectPending, \* EventsScreen: the effect on [savedEvents] has yet to run
    uiToggles       \* history: per event id, the toggleSave calls so far

vars == <<now, attendanceFile, ratingsFile, res, stStart, stEnd, stNow, stLabel,
          dbAttendance, dbRatings, dbReq, raceReq, commentsFile, intRows, intReq,
          gateReq, ckJar, ckUserId, ckSetCookie, ckIssued, orgCommittee,
          orgExpenses, uiEvents, uiSavedEvents, uiShowSaved, uiSearchTerm,
          uiSelectedCategories, uiFiltered, uiRenderedAt, rsOpen, rsUserName,
          rsSelectedRating, rsHasRated, rsLoading, rsChecks, rsPost, rsSucceeded,
          uiCookie, uiEffectPending, uiToggles>>

fileVars == <<attendanceFile, ratingsFile, res>>
statusVars == <<stStart, stEnd, stNow, stLabel>>
dbVars == <<dbAttendance, dbRatings, dbReq>>
raceVars == <<raceReq>>
commentVars == <<commentsFile>>
interestVars == <<intRows, intReq>>
gateVars == <<gateReq>>
cookieVars == <<ckJar, ckUserId, ckSetCookie, ckIssued>>
orgVars == <<orgCommittee, orgExpenses>>
screenVars == <<uiEvents, uiSavedEvents, uiShowSaved, uiSearchTerm,
                uiSelectedCategories, uiFiltered, uiRenderedAt, uiCookie,
                uiEffectPending, uiToggles>>
sectionVars == <<rsOpen, rsUserName, rsSelectedRating, rsHasRated, rsLoading,
                 rsChecks, rsPost, rsSucceeded>>
lateVars == <<orgVars, screenVars, sectionVars>>
extVars == <<raceVars, commentVars, interestVars, gateVars, cookieVars, lateVars>>

-----------------------------------------------------------------------------
(* Bounds of the model                                                     *)

MaxClock == 2
MaxRecords == 2
MaxTime == 4
MaxRatings == 4
MaxDbRequests == 2

-----------------------------------------------------------------------------
(* JavaScript values                                                       *)

Undefined == [t |-> "undefined"]
Null == [t |-> "null"]
NaN == [t |-> "NaN"]
JNum10(k) == [t |-> "number", x10 |-> k]
JInt(k) == [t |-> "number", x10 |-> 10 * k]
JStr(cs) == [t |-> "string", s |-> cs]
JArr(xs) == [t |-> "array", xs |-> xs]

Digits == <<"0", "1", "2", "3", "4", "5", "6", "7", "8", "9">>

IsDigit(c) == \E i \in 1..Len(Digits) : Digits[i] = c

DigitValue(c) == (CHOOSE i \in 1..Len(Digits) : Digits[i] = c) - 1

IsWhite(c) == c = " "

\* ToBoolean: undefined, null, NaN, 0 and "" are falsy
Truthy(v) ==
    CASE v.t = "undefined" -> FALSE
      [] v.t = "null" -> FALSE
      [] v.t = "NaN" -> FALSE
      [] v.t = "number" -> v.x10 # 0
      [] v.t = "string" -> v.s # <<>>

\* a === b : same type and same value; NaN equals nothing, itself included
StrictEq(a, b) ==
    /\ a.t = b.t
    /\ CASE a.t = "number" -> a.x10 = b.x10
         [] a.t = "string" -> a.s = b.s
         [] a.t = "NaN" -> FALSE
         [] OTHER -> TRUE

RECURSIVE DropWhiteLeft(_)
DropWhiteLeft(cs) ==
    IF cs # <<>> /\ IsWhite(Head(cs)) THEN DropWhiteLeft(Tail(cs)) ELSE cs

RECURSIVE DropWhiteRight(_)
DropWhiteRight(cs) ==
    IF cs # <<>> /\ IsWhite(cs[Len(cs)])
    THEN DropWhiteRight(SubSeq(cs, 1, Len(cs) - 1))
    ELSE cs

\* String.prototype.trim on the characters of a string
trim(cs) == DropWhiteRight(DropWhiteLeft(cs))

\* the longest prefix of cs made of digits
RECURSIVE DigitPrefix(_)
DigitPrefix(cs) ==
    IF cs # <<>> /\ IsDigit(Head(cs))
    THEN <<Head(cs)>> \o DigitPrefix(Tail(cs))
    ELSE <<>>

RECURSIVE DigitsValue(_)
DigitsValue(ds) ==
    IF ds = <<>> THEN 0
    ELSE 10 * DigitsValue(SubSeq(ds, 1, Len(ds) - 1)) + DigitValue(ds[Len(ds)])

\* parseInt(string): leading white space skipped, an optional sign, then the
\* longest run of digits; NaN when there is no digit
parseIntChars(cs) ==
    LET body == DropWhiteLeft(cs)
        neg == body # <<>> /\ Head(body) = "-"
        signed == body # <<>> /\ Head(body) \in {"-", "+"}
        ds == DigitPrefix(IF signed THEN Tail(body) ELSE body)
    IN IF ds = <<>> THEN NaN
       ELSE JInt(IF neg THEN 0 - DigitsValue(ds) ELSE DigitsValue(ds))

\* parseInt(v): v is converted to a string first, so a number loses its
\* fraction ("2.5" parses to 2) and undefined, null and NaN give NaN
parseInt(v) ==
    CASE v.t = "string" -> parseIntChars(v.s)
      [] v.t = "number" ->
            JInt(IF v.x10 >= 0 THEN v.x10 \div 10 ELSE 0 - ((0 - v.x10) \div 10))
      [] OTHER -> NaN

\* ToNumber, as the relational operators apply it to an operand: a string of
\* digits (white space around it ignored) is its value, the empty string 0,
\* any other string of the model NaN; undefined is NaN, null is 0
ToNumber(v) ==
    CASE v.t = "number" -> v
      [] v.t = "NaN" -> NaN
      [] v.t = "undefined" -> NaN
      [] v.t = "null" -> JInt(0)
      [] v.t = "string" ->
            LET cs == trim(v.s)
            IN IF cs = <<>> THEN JInt(0)
               ELSE IF DigitPrefix(cs) = cs THEN JInt(DigitsValue(cs))
               ELSE NaN

\* v < k and v > k for an integer k: false when v converts to NaN
JsLess(v, k) == LET n == ToNumber(v) IN n.t = "number" /\ n.x10 < 10 * k

JsGreater(v, k) == LET n == ToNumber(v) IN n.t = "number" /\ n.x10 > 10 * k

\* JSON.stringify followed by JSON.parse of a number field: NaN becomes null
JsonNumber(v) == IF v.t = "NaN" THEN Null ELSE v

-----------------------------------------------------------------------------
(* Event status classifier (dashboard)                                     *)

getEventStatusOnGoingStrict(start, end, t) ==
    IF t > start /\ t < end THEN "On Going"
    ELSE IF t < start THEN "Up Coming"
    ELSE "Ended"

\* getEventStatus(start, end) with new Date() = t; timestamps in milliseconds
getEventStatus(start, end, t) ==
    IF t >= start /\ t <= end THEN "On Going"
    ELSE IF t < start THEN "Up Coming"
    ELSE "Ended"

-----------------------------------------------------------------------------
(* File-backed stores                                                      *)

NoFile == [exists |-> FALSE, data |-> <<>>]

NoResponse == [op |-> "none", status |-> 0, body |-> Null]

FsOk == {"ok"}

FsAny == {"ok", "throw"}

\* the events table read by GET /api/events: one event, which is Up Coming
\* at time 0, On Going at time 1 and Ended from time 2 on
events == <<[event_id |-> 1, start_time |-> 1, end_time |-> 1]>>

\* the path values of :eventId that requests carry
EventIdParams == {<<"1">>, <<"0", "1">>, <<"a", "b", "c">>}

\* the values of body.userName that requests carry
UserNameBodies ==
    {Undefined, JStr(<<>>), JStr(<<" ">>), JStr(<<"a">>), JStr(<<" ", "a">>),
     JStr(<<"b">>), JInt(7)}

\* the values of body.rating that requests carry
RatingBodies ==
    {Undefined, JInt(0), JInt(6), JInt(5), JNum10(25), JStr(<<"a", "b", "c">>)}

\* readComments / readAttendance / readRatings: the file is created empty
\* when missing; any failure is caught and [] returned
readFile(file, rd) ==
    IF rd = "throw"
    THEN [file |-> file, data |-> <<>>]
    ELSE [file |-> [exists |-> TRUE, data |-> file.data], data |-> file.data]

readAttendance(file, rd) == readFile(file, rd)

readRatings(file, rd) == readFile(file, rd)

\* JSON.stringify of a record: a NaN field is written as null
JsonRecord(r) ==
    [f \in DOMAIN r |->
        IF f \in {"event_id", "rating"} THEN JsonNumber(r[f]) ELSE r[f]]

JsonRecords(rs) == [i \in 1..Len(rs) |-> JsonRecord(rs[i])]

\* writeComments / writeAttendance / writeRatings: the whole array replaces
\* the file; a failure is caught and logged, the file staying as it was
writeFile(file, data, wr) ==
    IF wr = "throw" THEN file ELSE [exists |-> TRUE, data |-> JsonRecords(data)]

writeAttendance(file, data, wr) == writeFile(file, data, wr)

writeRatings(file, data, wr) == writeFile(file, data, wr)

ErrorBody(msg) == [error |-> msg]

\* !userName || !userName.trim(): "reject" (400), "throw" (trim is not a
\* function of a non-string) or "pass"
userNameCheck(userName) ==
    IF ~Truthy(userName) THEN "reject"
    ELSE IF userName.t # "string" THEN "throw"
    ELSE IF ~Truthy(JStr(trim(userName.s))) THEN "reject"
    ELSE "pass"

\* POST /api/events/:eventId/attend: the response and the file afterwards
attendHandler(file, eventId, userName, t, rd, wr) ==
    LET chk == userNameCheck(userName) IN
    IF chk = "reject"
    THEN [status |-> 400, body |-> ErrorBody("User name is required"), file |-> file]
    ELSE IF chk = "throw"
    THEN [status |-> 500, body |-> ErrorBody("userName.trim is not a function"),
          file |-> file]
    ELSE
      LET rdo == readAttendance(file, rd)
          attendance == rdo.data
          id == parseInt(JStr(eventId))
          name == trim(userName.s)
          alreadyAttending ==
              \E i \in 1..Len(attendance) :
                  /\ StrictEq(attendance[i].event_id, id)
                  /\ attendance[i].user_name = name
          newAttendance ==
              [attendance_id |-> t, event_id |-> id, user_name |-> name,
               created_at |-> t]
      IN IF alreadyAttending
         THEN [status |-> 400, body |-> ErrorBody("Already marked as attending"),
               file |-> rdo.file]
         ELSE [status |-> 201, body |-> JsonRecord(newAttendance),
               file |-> writeAttendance(rdo.file, Append(attendance, newAttendance), wr)]

\* DELETE /api/events/:eventId/attend
unattendHandler(file, eventId, userName, rd, wr) ==
    IF ~Truthy(userName)
    THEN [status |-> 400, body |-> ErrorBody("User name is required"), file |-> file]
    ELSE
      LET rdo == readAttendance(file, rd)
          id == parseInt(JStr(eventId))
          Keep(a) == ~(StrictEq(a.event_id, id) /\ StrictEq(JStr(a.user_name), userName))
      IN [status |-> 200, body |-> [message |-> "Attendance removed successfully"],
          file |-> writeAttendance(rdo.file, SelectSeq(rdo.data, Keep), wr)]

\* !rating || rating < 1 || rating > 5
ratingRejected(rating) == ~Truthy(rating) \/ JsLess(rating, 1) \/ JsGreater(rating, 5)

\* POST /api/events/:eventId/rating
ratingHandler(file, eventId, userName, rating, t, rd, wr) ==
    LET chk == userNameCheck(userName) IN
    IF chk = "reject"
    THEN [status |-> 400, body |-> ErrorBody("User name is required"), file |-> file]
    ELSE IF chk = "throw"
    THEN [status |-> 500, body |-> ErrorBody("userName.trim is not a function"),
          file |-> file]
    ELSE IF ratingRejected(rating)
    THEN [status |-> 400, body |-> ErrorBody("Rating must be between 1 and 5"),
          file |-> file]
    ELSE
      LET rdo == readRatings(file, rd)
          ratings == rdo.data
          id == parseInt(JStr(eventId))
          name == trim(userName.s)
          alreadyRated ==
              \E i \in 1..Len(ratings) :
                  /\ StrictEq(ratings[i].event_id, id)
                  /\ ratings[i].user_name = name
          newRating ==
              [rating_id |-> t, event_id |-> id, user_name |-> name,
               rating |-> parseInt(rating), created_at |-> t]
      IN IF alreadyRated
         THEN [status |-> 400, body |-> ErrorBody("You have already rated this event"),
               file |-> rdo.file]
         ELSE [status |-> 201, body |-> JsonRecord(newRating),
               file |-> writeRatings(rdo.file, Append(ratings, newRating), wr)]

\* the number of records the two files may hold together
WithinRecords(att, rat) == Len(att.data) + Len(rat.data) <= MaxRecords

PostAttend(eventId, userName, rd, wr) ==
    LET out == attendHandler(attendanceFile, eventId, userName, now, rd, wr) IN
    /\ WithinRecords(out.file, ratingsFile)
    /\ attendanceFile' = out.file
    /\ res' = [op |-> "attend", status |-> out.status, body |-> out.body]
    /\ UNCHANGED <<now, ratingsFile, statusVars, dbVars, extVars>>

DeleteAttend(eventId, userName, rd, wr) ==
    LET out == unattendHandler(attendanceFile, eventId, userName, rd, wr) IN
    /\ attendanceFile' = out.file
    /\ res' = [op |-> "unattend", status |-> out.status, body |-> out.body]
    /\ UNCHANGED <<now, ratingsFile, statusVars, dbVars, extVars>>

PostRating(eventId, userName, rating, rd, wr) ==
    LET out == ratingHandler(ratingsFile, eventId, userName, rating, now, rd, wr) IN
    /\ WithinRecords(attendanceFile, out.file)
    /\ ratingsFile' = out.file
    /\ res' = [op |-> "rating", status |-> out.status, body |-> out.body]
    /\ UNCHANGED <<now, attendanceFile, statusVars, dbVars, extVars>>

\* time passes
Tick ==
    /\ now < MaxClock
    /\ now' = now + 1
    /\ UNCHANGED <<fileVars, statusVars, dbVars, extVars>>

StatusIdle == stStart = 0 /\ stEnd = 0 /\ stNow = 0 /\ stLabel = "none"

DbIdle == dbAttendance = <<>> /\ dbRatings = <<>> /\ dbReq = <<>>

FilesIdle == attendanceFile = NoFile /\ ratingsFile = NoFile /\ res = NoResponse

RaceIdle == raceReq = <<>>

CommentsIdle == commentsFile = NoFile

InterestsIdle == intRows = {} /\ intReq = <<>>

GateIdle == gateReq = Null

\* the clients of the interests router
Clients == {"c1", "c2"}

CookieIdle ==
    /\ ckJar = [c \in Clients |-> Undefined]
    /\ ckUserId = [c \in Clients |-> Undefined]
    /\ ckSetCookie = Null
    /\ ckIssued = 0

OrgIdle == orgCommittee = {} /\ orgExpenses = {}

ScreenIdle ==
    /\ uiEvents = <<>> /\ uiSavedEvents = <<>> /\ uiShowSaved = FALSE
    /\ uiSearchTerm = <<>> /\ uiSelectedCategories = <<>>
    /\ uiFiltered = <<>> /\ uiRenderedAt = 0
    /\ uiCookie = Undefined /\ uiEffectPending = FALSE /\ uiToggles = <<>>

SectionIdle ==
    /\ rsOpen = FALSE /\ rsUserName = <<>> /\ rsSelectedRating = JInt(0)
    /\ rsHasRated = FALSE /\ rsLoading = FALSE /\ rsChecks = <<>>
    /\ rsPost = Null /\ rsSucceeded = FALSE

LateIdle == OrgIdle /\ ScreenIdle /\ SectionIdle

ExtIdle == RaceIdle /\ CommentsIdle /\ LateIdle /\ InterestsIdle /\ GateIdle /\ CookieIdle

Init == now = 0 /\ FilesIdle /\ StatusIdle /\ DbIdle /\ ExtIdle

AttendRequests(E, U, Rd, Wr) ==
    \E eventId \in E, userName \in U, rd \in Rd, wr \in Wr :
        \/ PostAttend(eventId, userName, rd, wr)
        \/ DeleteAttend(eventId, userName, rd, wr)

RatingRequests(E, U, R, Rd, Wr) ==
    \E eventId \in E, userName \in U, rating \in R, rd \in Rd, wr \in Wr :
        PostRating(eventId, userName, rating, rd, wr)

Next == Tick \/ AttendRequests(EventIdParams, UserNameBodies, FsOk, FsOk)

\* the attendance endpoints of the file-backed server, on a file system
\* whose reads and writes succeed
Spec == Init /\ [][Next]_vars

NextRating ==
    Tick \/ RatingRequests(EventIdParams, UserNameBodies, RatingBodies, FsOk, FsOk)

\* the rating submission endpoint of the file-backed server, on a file
\* system whose reads and writes succeed
SpecRating == Init /\ [][NextRating]_vars

\* requests of the runs in which writeFileSync may throw
FsEventIdParams == {<<"1">>}

FsUserNameBodies == {JStr(<<>>), JStr(<<" ">>), JStr(<<"a">>), JStr(<<"b">>)}

FsRatingBodies == {JInt(0), JInt(5)}

NextFs ==
    \/ Tick
    \/ AttendRequests(FsEventIdParams, FsUserNameBodies, FsOk, FsAny)
    \/ RatingRequests(FsEventIdParams, FsUserNameBodies, FsRatingBodies, FsOk, FsAny)

\* attendance and rating submission on a file system whose writes may fail
SpecFs == Init /\ [][NextFs]_vars

-----------------------------------------------------------------------------
(* The status classifier on its own                                        *)

CallGetEventStatus(start, end) ==
    /\ stStart' = start
    /\ stEnd' = end
    /\ stNow' = now
    /\ stLabel' = getEventStatus(start, end, now)
    /\ UNCHANGED <<now, fileVars, dbVars, extVars>>

InitStatus == now \in 0..MaxTime /\ FilesIdle /\ StatusIdle /\ DbIdle /\ ExtIdle

NextStatus == \E start \in 0..MaxTime, end \in 0..MaxTime : CallGetEventStatus(start, end)

SpecStatus == InitStatus /\ [][NextStatus]_vars

-----------------------------------------------------------------------------
(* Rating aggregation: GET /api/events/:eventId/rating                     *)

\* r placed in a list already ordered newest first, behind every record that
\* is not older than it (Array.prototype.sort is stable)
RECURSIVE insertNewestFirst(_, _)
insertNewestFirst(r, sorted) ==
    IF sorted = <<>> THEN <<r>>
    ELSE IF Head(sorted).created_at >= r.created_at
    THEN <<Head(sorted)>> \o insertNewestFirst(r, Tail(sorted))
    ELSE <<r>> \o sorted

\* .sort((a, b) => new Date(b.created_at) - new Date(a.created_at))
RECURSIVE sortNewestFirst(_)
sortNewestFirst(rs) ==
    IF rs = <<>> THEN <<>>
    ELSE insertNewestFirst(rs[Len(rs)], sortNewestFirst(SubSeq(rs, 1, Len(rs) - 1)))

\* sum + r.rating, in tenths: null counts as 0 in an addition
RECURSIVE sumRatings(_)
sumRatings(rs) ==
    IF rs = <<>> THEN 0
    ELSE (IF Head(rs).rating.t = "number" THEN Head(rs).rating.x10 ELSE 0)
         + sumRatings(Tail(rs))

toFixed1Truncating(sum10, n) == JNum10(sum10 \div n)

\* parseFloat((sum / n).toFixed(1)) for sum = sum10 / 10: the multiple of 0.1
\* nearest to sum / n, the larger one on a tie. sum / n is computed in binary
\* floating point; for n < 20 every tie (x.25, x.75) is exact and no other
\* quotient is within rounding error of a tie, so the result is the same.
toFixed1(sum10, n) == JNum10((2 * sum10 + n) \div (2 * n))

getRatingHandler(file, eventId, rd) ==
    LET rdo == readRatings(file, rd)
        id == parseInt(JStr(eventId))
        OfEvent(r) == StrictEq(r.event_id, id)
        eventRatings == sortNewestFirst(SelectSeq(rdo.data, OfEvent))
        totalRatings == Len(eventRatings)
        averageRating ==
            IF totalRatings > 0 THEN toFixed1(sumRatings(eventRatings), totalRatings)
            ELSE JInt(0)
    IN [status |-> 200,
        body |-> [averageRating |-> averageRating, totalRatings |-> totalRatings,
                  ratings |-> eventRatings],
        file |-> rdo.file]

GetRating(eventId, rd) ==
    LET out == getRatingHandler(ratingsFile, eventId, rd) IN
    /\ ratingsFile' = out.file
    /\ res' = [op |-> "getRating", status |-> out.status, body |-> out.body]
    /\ UNCHANGED <<now, attendanceFile, statusVars, dbVars, extVars>>

\* the i-th rating of a stored list: its own user, created at time i
StoredRating(i, event_id, rating) ==
    [rating_id |-> i, event_id |-> JInt(event_id), user_name |-> <<"u", Digits[i + 1]>>,
     rating |-> JInt(rating), created_at |-> i]

\* the rating lists of up to MaxRatings records, of events 1 and 2, each
\* rating one of 1, 4 and 5
StoredRatingLists ==
    UNION {{[i \in 1..n |-> StoredRating(i, f[i][1], f[i][2])] :
               f \in [1..n -> {1, 2} \X {1, 4, 5}]} : n \in 0..MaxRatings}

InitAvg ==
    /\ \E rs \in StoredRatingLists :
          /\ ratingsFile = [exists |-> TRUE, data |-> rs]
          /\ now = Len(rs)
    /\ attendanceFile = NoFile
    /\ res = NoResponse
    /\ StatusIdle
    /\ DbIdle
    /\ ExtIdle

NextAvg == \E eventId \in EventIdParams : GetRating(eventId, "ok")

\* the rating aggregation on the rating lists the store can hold
SpecAvg == InitAvg /\ [][NextAvg]_vars

-----------------------------------------------------------------------------
(* Database variant: POST attend and POST rating over the hosted store     *)

DbEventIdParams == {<<"1">>, <<"0", "1">>}

DbUserNameBodies == {JStr(<<" ">>), JStr(<<"a">>), JStr(<<" ", "a">>), JStr(<<"b">>)}

DbRatingBodies == {JInt(5)}

DbTable(kind) == IF kind = "attend" THEN dbAttendance ELSE dbRatings

\* the store's insert into a table with a unique constraint on
\* (event_id, user_name): the row is added with a generated id, or the
\* insert is refused with error code 23505
storeInsert(table, row) ==
    IF \E i \in 1..Len(table) :
          table[i].event_id = row.event_id /\ table[i].user_name = row.user_name
    THEN [table |-> table, error |-> [code |-> "23505"], data |-> <<>>]
    ELSE LET stored == [f \in DOMAIN row \cup {"id"} |->
                           IF f = "id" THEN Len(table) + 1 ELSE row[f]]
         IN [table |-> Append(table, stored), error |-> Null, data |-> <<stored>>]

\* the handler up to its await: a response, or the row it sends to the store
dbValidate(q) ==
    LET chk == userNameCheck(q.userName) IN
    IF chk = "reject"
    THEN [status |-> 400, body |-> ErrorBody("User name is required")]
    ELSE IF chk = "throw"
    THEN [status |-> 500, body |-> ErrorBody("userName.trim is not a function")]
    ELSE IF q.kind = "rating" /\ ratingRejected(q.rating)
    THEN [status |-> 400, body |-> ErrorBody("Rating must be between 1 and 5")]
    ELSE [status |-> 0,
          body |-> IF q.kind = "attend"
                   THEN [event_id |-> parseInt(JStr(q.eventId)),
                         user_name |-> trim(q.userName.s)]
                   ELSE [event_id |-> parseInt(JStr(q.eventId)),
                         user_name |-> trim(q.userName.s),
                         rating |-> parseInt(q.rating)]]

dbConflictMessage(kind) ==
    IF kind = "attend" THEN "Already marked as attending"
    ELSE "You have already rated this event"

dbRespondIgnoringError(q) ==
    [status |-> 201, body |-> IF q.result.data = <<>> THEN Undefined ELSE q.result.data[1]]

\* the handler after its await: if (error) { 23505 -> 400; else throw -> 500 }
\* and 201 with data[0] otherwise
dbRespond(q) ==
    IF q.result.error # Null
    THEN IF q.result.error.code = "23505"
         THEN [status |-> 400, body |-> ErrorBody(dbConflictMessage(q.kind))]
         ELSE [status |-> 500, body |-> ErrorBody("store error")]
    ELSE [status |-> 201, body |-> q.result.data[1]]

\* a request arrives at its handler, which answers or sends its insert
DbStart(i) ==
    /\ dbReq[i].pc = "new"
    /\ LET v == dbValidate(dbReq[i]) IN
       dbReq' = [dbReq EXCEPT ![i] =
                    IF v.status = 0
                    THEN [@ EXCEPT !.pc = "insert", !.row = v.body]
                    ELSE [@ EXCEPT !.pc = "done", !.status = v.status, !.body = v.body]]
    /\ UNCHANGED <<dbAttendance, dbRatings, now, fileVars, statusVars, extVars>>

\* the store executes the insert of request i
DbInsert(i) ==
    /\ dbReq[i].pc = "insert"
    /\ LET r == storeInsert(DbTable(dbReq[i].kind), dbReq[i].row) IN
       /\ dbReq' = [dbReq EXCEPT ![i] =
                       [@ EXCEPT !.pc = "reply",
                                 !.result = [error |-> r.error, data |-> r.data]]]
       /\ IF dbReq[i].kind = "attend"
          THEN dbAttendance' = r.table /\ UNCHANGED dbRatings
          ELSE dbRatings' = r.table /\ UNCHANGED dbAttendance
    /\ UNCHANGED <<now, fileVars, statusVars, extVars>>

\* the handler of request i resumes with the store's reply and answers
DbReply(i) ==
    /\ dbReq[i].pc = "reply"
    /\ LET v == dbRespond(dbReq[i]) IN
       dbReq' = [dbReq EXCEPT ![i] =
                    [@ EXCEPT !.pc = "done", !.status = v.status, !.body = v.body]]
    /\ UNCHANGED <<dbAttendance, dbRatings, now, fileVars, statusVars, extVars>>

DbNewRequest(kind, eventId, userName, rating) ==
    [kind |-> kind, eventId |-> eventId, userName |-> userName, rating |-> rating,
     pc |-> "new", row |-> Null, result |-> Null, status |-> 0, body |-> Null]

DbNewRequests ==
    {DbNewRequest(kind, eventId, userName, rating) :
        kind \in {"attend", "rating"}, eventId \in DbEventIdParams,
        userName \in DbUserNameBodies, rating \in DbRatingBodies}

InitDb ==
    /\ dbReq \in [1..MaxDbRequests -> DbNewRequests]
    /\ dbAttendance = <<>>
    /\ dbRatings = <<>>
    /\ now = 0
    /\ FilesIdle
    /\ StatusIdle
    /\ ExtIdle

NextDb == \E i \in 1..MaxDbRequests : DbStart(i) \/ DbInsert(i) \/ DbReply(i)

\* concurrent submissions to the database variant, on empty tables
SpecDb == InitDb /\ [][NextDb]_vars

-----------------------------------------------------------------------------
(* File-backed server: attend requests admitted concurrently               *)

MaxRaceRequests == 2

RaceUserNameBodies == {JStr(<<"a">>), JStr(<<" ", "a">>), JStr(<<"b">>)}

RaceNewRequest(eventId, userName) ==
    [eventId |-> eventId, userName |-> userName, pc |-> "pending",
     status |-> 0, body |-> Null, wrote |-> FALSE]

RaceNewRequests ==
    {RaceNewRequest(eventId, userName) :
        eventId \in EventIdParams, userName \in RaceUserNameBodies}

\* the request as its handler leaves it: answered, wrote telling whether its
\* writeFileSync returned
RaceAnswered(q, out, wr) ==
    [q EXCEPT !.pc = "done", !.status = out.status, !.body = out.body,
              !.wrote = (out.status = 201 /\ wr = "ok")]

\* a handler that gave up control between readAttendance and writeAttendance
RaceHandleYielding(i, wr) ==
    /\ \/ /\ raceReq[i].pc = "pending"
          /\ raceReq' = [raceReq EXCEPT ![i] =
                [eventId |-> @.eventId, userName |-> @.userName, pc |-> "read",
                 status |-> 0, body |-> Null, wrote |-> FALSE,
                 seen |-> readAttendance(attendanceFile, "ok").file]]
          /\ UNCHANGED attendanceFile
       \/ /\ raceReq[i].pc = "read"
          /\ LET out == attendHandler(raceReq[i].seen, raceReq[i].eventId,
                                      raceReq[i].userName, now, "ok", wr)
             IN /\ attendanceFile' = out.file
                /\ raceReq' = [raceReq EXCEPT ![i] = RaceAnswered(@, out, wr)]
    /\ UNCHANGED <<now, ratingsFile, res, statusVars, dbVars, lateVars, commentVars,
                   interestVars, gateVars, cookieVars>>

\* the event loop runs the callback of request i: (req, res) => { ... } has no
\* await and calls only readFileSync / writeFileSync, so it runs from its
\* first statement to res.json() before any other callback starts
RaceHandle(i, wr) ==
    /\ raceReq[i].pc = "pending"
    /\ LET out == attendHandler(attendanceFile, raceReq[i].eventId,
                                raceReq[i].userName, now, "ok", wr)
       IN /\ attendanceFile' = out.file
          /\ raceReq' = [raceReq EXCEPT ![i] = RaceAnswered(@, out, wr)]
    /\ UNCHANGED <<now, ratingsFile, res, statusVars, dbVars, lateVars, commentVars,
                   interestVars, gateVars, cookieVars>>

InitRace ==
    /\ raceReq \in [1..MaxRaceRequests -> RaceNewRequests]
    /\ now = 0
    /\ FilesIdle /\ StatusIdle /\ DbIdle
    /\ CommentsIdle /\ LateIdle /\ InterestsIdle /\ GateIdle /\ CookieIdle

NextRace == Tick \/ \E i \in 1..MaxRaceRequests, wr \in FsAny : RaceHandle(i, wr)

\* requests admitted together, in every order the event loop may run them,
\* each write succeeding or failing; the event loop runs the callback of
\* every admitted request
SpecRace ==
    /\ InitRace
    /\ [][NextRace]_vars
    /\ \A i \in 1..MaxRaceRequests : WF_vars(\E wr \in FsAny : RaceHandle(i, wr))

-----------------------------------------------------------------------------
(* Interests router: GET /me and POST /me over table interested_category   *)

MaxIntRequests == 3

\* String(v) of the values a categories array carries
String(v) ==
    IF v.t = "string" THEN v.s
    ELSE IF v.t = "number" /\ v.x10 % 10 = 0 /\ v.x10 \div 10 \in 0..9
    THEN <<Digits[v.x10 \div 10 + 1]>>
    ELSE <<v.t>>

\* [...new Set(xs)]: the distinct elements, each at its first occurrence
RECURSIVE newSet(_)
newSet(xs) ==
    IF xs = <<>> THEN <<>>
    ELSE LET rest == newSet(SubSeq(xs, 1, Len(xs) - 1))
             last == xs[Len(xs)]
         IN IF \E k \in 1..Len(rest) : rest[k] = last THEN rest ELSE Append(rest, last)

\* Array.isArray(req.body?.categories) ? [...new Set(categories.map(String))] : []
postedCategories(body) ==
    IF body.t # "array" THEN <<>>
    ELSE newSet([k \in 1..Len(body.xs) |-> String(body.xs[k])])

\* table categories: category_id, category_name
categoriesTable ==
    {[category_id |-> <<"2">>, category_name |-> "music"],
     [category_id |-> <<"3">>, category_name |-> "sports"],
     [category_id |-> <<"4">>, category_name |-> "tech"]}

\* the request bodies' categories: arrays of ids of table categories, or no array
CategoriesBodies ==
    <<JArr(<<JStr(<<"2">>), JStr(<<"2">>), JStr(<<"3">>)>>), JArr(<<JStr(<<"4">>)>>),
      JArr(<<JInt(2), JStr(<<"2">>)>>), JArr(<<>>), Undefined>>

UserIds == {"u1", "u2"}

IntNewRequest(kind, userId, body) ==
    [kind |-> kind, userId |-> userId, body |-> body, pc |-> "new",
     categories |-> <<>>, ids |-> {}, status |-> 0, saved |-> Null,
     startedAfter |-> {}]

\* the requests a run draws from: user u1 posting each body, user u2 posting
\* one, each user reading
IntNewRequests ==
    [k \in 1..Len(CategoriesBodies) |-> IntNewRequest("post", "u1", CategoriesBodies[k])]
    \o <<IntNewRequest("post", "u2", JArr(<<JStr(<<"4">>)>>)),
         IntNewRequest("get", "u1", Undefined), IntNewRequest("get", "u2", Undefined)>>

\* the outcomes of one call to the store
StoreOutcomes == {"ok", "error"}

\* .from("interested_category").delete().eq("user_id", userId)
storeDeleteInterests(rows, userId, outcome) ==
    IF outcome = "error" THEN [rows |-> rows, error |-> [message |-> "store error"]]
    ELSE [rows |-> {r \in rows : r[1] # userId}, error |-> Null]

\* .from("interested_category").insert(rows): all rows or none
storeInsertInterests(rows, newRows, outcome) ==
    IF outcome = "error" THEN [rows |-> rows, error |-> [message |-> "store error"]]
    ELSE [rows |-> rows \cup newRows, error |-> Null]

\* .from("interested_category").select("category_id").eq("user_id", userId)
storeSelectInterests(rows, userId, outcome) ==
    IF outcome = "error" THEN [data |-> Null, error |-> [message |-> "store error"]]
    ELSE [data |-> {r[2] : r \in {x \in rows : x[1] = userId}}, error |-> Null]

\* .from("categories").select("category_id, category_name").in("category_id", ids)
storeSelectCategories(ids, outcome) ==
    IF outcome = "error" THEN [data |-> Null, error |-> [message |-> "store error"]]
    ELSE [data |-> {c \in categoriesTable : c.category_id \in ids}, error |-> Null]

\* the requests that have been answered
IntDone == {k \in 1..Len(intReq) : intReq[k].pc = "done"}

IntOthersIdle ==
    UNCHANGED <<now, fileVars, statusVars, dbVars, lateVars, raceVars, commentVars, gateVars,
                cookieVars>>

\* a handler that reports success whatever the insert returned
intPostInsertIgnoringError(q, rows, outcome) ==
    LET newRows == {<<q.userId, q.categories[k]>> : k \in 1..Len(q.categories)}
        r == storeInsertInterests(rows, newRows, outcome)
    IN [rows |-> r.rows,
        req |-> [q EXCEPT !.pc = "done", !.status = 200, !.saved = q.categories]]

\* POST /me from the insert on: rows, await insert, 500 on insErr, else saved
intPostInsert(q, rows, outcome) ==
    LET newRows == {<<q.userId, q.categories[k]>> : k \in 1..Len(q.categories)}
        r == storeInsertInterests(rows, newRows, outcome)
    IN [rows |-> r.rows,
        req |-> [q EXCEPT !.pc = "done",
                          !.status = IF r.error # Null THEN 500 ELSE 200,
                          !.saved = IF r.error # Null THEN Null ELSE q.categories]]

\* a handler that inserts the new list without deleting the old rows
intPostDeleteKeeping(q, rows, outcome) ==
    LET categories == postedCategories(q.body) IN
    [rows |-> rows,
     req |-> IF outcome = "error"
             THEN [q EXCEPT !.pc = "done", !.status = 500, !.categories = categories]
             ELSE IF categories = <<>>
             THEN [q EXCEPT !.pc = "done", !.status = 200, !.saved = <<>>,
                            !.categories = categories]
             ELSE [q EXCEPT !.pc = "insert", !.categories = categories]]

\* POST /me up to the insert: categories, await delete, 500 on delErr, the
\* empty list answered at once
intPostDelete(q, rows, outcome) ==
    LET categories == postedCategories(q.body)
        r == storeDeleteInterests(rows, q.userId, outcome)
    IN [rows |-> r.rows,
        req |-> IF r.error # Null
                THEN [q EXCEPT !.pc = "done", !.status = 500, !.categories = categories]
                ELSE IF categories = <<>>
                THEN [q EXCEPT !.pc = "done", !.status = 200, !.saved = <<>>,
                               !.categories = categories]
                ELSE [q EXCEPT !.pc = "insert", !.categories = categories]]

\* GET /me up to the second query: the user's category ids
intGetSelect(q, rows, outcome) ==
    LET r == storeSelectInterests(rows, q.userId, outcome) IN
    IF r.error # Null THEN [q EXCEPT !.pc = "done", !.status = 500]
    ELSE IF r.data = {} THEN [q EXCEPT !.pc = "done", !.status = 200, !.saved = {}]
    ELSE [q EXCEPT !.pc = "names", !.ids = r.data]

\* GET /me from the second query on: the categories of these ids
intGetNames(q, outcome) ==
    LET r == storeSelectCategories(q.ids, outcome) IN
    IF r.error # Null THEN [q EXCEPT !.pc = "done", !.status = 500]
    ELSE [q EXCEPT !.pc = "done", !.status = 200, !.saved = r.data]

IntPostDelete(i, outcome) ==
    /\ intReq[i].kind = "post" /\ intReq[i].pc = "new"
    /\ LET out == intPostDelete([intReq[i] EXCEPT !.startedAfter = IntDone],
                                intRows, outcome)
       IN intRows' = out.rows /\ intReq' = [intReq EXCEPT ![i] = out.req]
    /\ IntOthersIdle

IntPostInsert(i, outcome) ==
    /\ intReq[i].kind = "post" /\ intReq[i].pc = "insert"
    /\ LET out == intPostInsert(intReq[i], intRows, outcome)
       IN intRows' = out.rows /\ intReq' = [intReq EXCEPT ![i] = out.req]
    /\ IntOthersIdle

IntGetSelect(i, outcome) ==
    /\ intReq[i].kind = "get" /\ intReq[i].pc = "new"
    /\ intReq' = [intReq EXCEPT ![i] =
          intGetSelect([@ EXCEPT !.startedAfter = IntDone], intRows, outcome)]
    /\ UNCHANGED intRows
    /\ IntOthersIdle

IntGetNames(i, outcome) ==
    /\ intReq[i].kind = "get" /\ intReq[i].pc = "names"
    /\ intReq' = [intReq EXCEPT ![i] = intGetNames(@, outcome)]
    /\ UNCHANGED intRows
    /\ IntOthersIdle

InitInterests ==
    /\ \E f \in [1..MaxIntRequests -> 1..Len(IntNewRequests)] :
          /\ \A k \in 1..(MaxIntRequests - 1) : f[k] <= f[k + 1]
          /\ intReq = [k \in 1..MaxIntRequests |-> IntNewRequests[f[k]]]
    /\ intRows = {}
    /\ now = 0
    /\ FilesIdle /\ StatusIdle /\ DbIdle
    /\ RaceIdle /\ CommentsIdle /\ LateIdle /\ GateIdle /\ CookieIdle

NextInterests ==
    \E i \in 1..MaxIntRequests, outcome \in StoreOutcomes :
        \/ IntPostDelete(i, outcome)
        \/ IntPostInsert(i, outcome)
        \/ IntGetSelect(i, outcome)
        \/ IntGetNames(i, outcome)

\* requests to /interests/me in flight together (every multiset of
\* MaxIntRequests requests, the steps taken in any order), each store call
\* succeeding or failing
SpecInterests == InitInterests /\ [][NextInterests]_vars

-----------------------------------------------------------------------------
(* Organizer router: requireOrganizer in front of every route              *)

\* the routes registered on the router after router.use(requireOrganizer)
GateRoutes ==
    {"GET /committee/debug", "GET /committee", "POST /committee",
     "PUT /committee/:member_id", "DELETE /committee/:member_id",
     "GET /committee/stats", "GET /expenses/debug", "GET /expenses",
     "POST /expenses", "PUT /expenses/:expense_id", "DELETE /expenses/:expense_id",
     "GET /expenses/stats", "POST /setup-expenses", "GET /events"}

\* req.headers.authorization: a string as the sequence of its pieces, the
\* text "Bearer " being one piece
AuthHeaders ==
    {Undefined, JStr(<<>>), JStr(<<"Bearer ">>), JStr(<<"Bearer ", "org">>),
     JStr(<<"Bearer ", "mem">>), JStr(<<"Bearer ", "ghost">>),
     JStr(<<"Bearer ", "expired">>), JStr(<<"org">>), JStr(<<"Basic ", "org">>)}

\* authHeader.replace('Bearer ', ''): the first occurrence removed
RECURSIVE replaceBearer(_)
replaceBearer(cs) ==
    IF cs = <<>> THEN <<>>
    ELSE IF Head(cs) = "Bearer " THEN Tail(cs)
    ELSE <<Head(cs)>> \o replaceBearer(Tail(cs))

\* the outcomes of one awaited call: a result, an error result, an exception
GateOutcomes == {"ok", "error", "throw"}

\* the identities the auth layer knows, by credential
authIdentities ==
    {[token |-> <<"org">>, email |-> "org@x"], [token |-> <<"mem">>, email |-> "mem@x"],
     [token |-> <<"ghost">>, email |-> "ghost@x"]}

\* supabase.auth.getUser(token): { data: { user }, error }
authGetUser(token, outcome) ==
    IF outcome = "ok" /\ \E a \in authIdentities : a.token = token
    THEN [user |-> [email |-> (CHOOSE a \in authIdentities : a.token = token).email],
          error |-> Null]
    ELSE [user |-> Null, error |-> [message |-> "invalid JWT"]]

\* table users: role, full_name, email
usersTable ==
    {[email |-> "org@x", role |-> "organizer"], [email |-> "mem@x", role |-> "member"]}

\* .from('users').select('role, full_name, email').eq('email', email).single()
storeSelectUser(email, outcome) ==
    IF outcome = "ok" /\ \E u \in usersTable : u.email = email
    THEN [data |-> CHOOSE u \in usersTable : u.email = email, error |-> Null]
    ELSE [data |-> Null, error |-> [message |-> "no rows"]]

GateNewRequest(header, route) ==
    [header |-> header, route |-> route, pc |-> "new", token |-> Null,
     auth |-> Null, lookup |-> Null, user |-> Undefined, status |-> 0, ran |-> FALSE]

GateAnswer(q, status) == [q EXCEPT !.pc = "done", !.status = status]

\* requireOrganizer up to await supabase.auth.getUser(token)
gateStart(q) ==
    IF ~Truthy(q.header) THEN GateAnswer(q, 401)
    ELSE LET token == replaceBearer(q.header.s) IN
         IF ~Truthy(JStr(token)) THEN GateAnswer([q EXCEPT !.token = token], 401)
         ELSE [q EXCEPT !.pc = "auth", !.token = token]

\* a gate that answers an unverified credential with 403
gateAuthForbidding(q, outcome) ==
    IF outcome = "throw" THEN GateAnswer(q, 500)
    ELSE LET r == authGetUser(q.token, outcome) IN
         IF r.error # Null \/ r.user = Null THEN GateAnswer([q EXCEPT !.auth = r], 403)
         ELSE [q EXCEPT !.pc = "lookup", !.auth = r]

\* requireOrganizer from the reply of getUser to the await of the users query
gateAuth(q, outcome) ==
    IF outcome = "throw" THEN GateAnswer(q, 500)
    ELSE LET r == authGetUser(q.token, outcome) IN
         IF r.error # Null \/ r.user = Null THEN GateAnswer([q EXCEPT !.auth = r], 401)
         ELSE [q EXCEPT !.pc = "lookup", !.auth = r]

\* a gate that lets every user of table users through
gateLookupAnyRole(q, outcome) ==
    IF outcome = "throw" THEN GateAnswer(q, 500)
    ELSE LET r == storeSelectUser(q.auth.user.email, outcome) IN
         IF r.error # Null \/ r.data = Null THEN GateAnswer([q EXCEPT !.lookup = r], 403)
         ELSE [q EXCEPT !.pc = "next", !.lookup = r, !.user = r.data]

\* requireOrganizer from the reply of the users query on: 403, or req.user
\* set and next() called
gateLookup(q, outcome) ==
    IF outcome = "throw" THEN GateAnswer(q, 500)
    ELSE LET r == storeSelectUser(q.auth.user.email, outcome) IN
         IF r.error # Null \/ r.data = Null THEN GateAnswer([q EXCEPT !.lookup = r], 403)
         ELSE IF r.data.role # "organizer" THEN GateAnswer([q EXCEPT !.lookup = r], 403)
         ELSE [q EXCEPT !.pc = "next", !.lookup = r, !.user = r.data]

GateOthersIdle ==
    UNCHANGED <<now, fileVars, statusVars, dbVars, lateVars, raceVars, commentVars,
                interestVars, cookieVars>>

GateStart ==
    /\ gateReq.pc = "new"
    /\ gateReq' = gateStart(gateReq)
    /\ GateOthersIdle

GateAuth(outcome) ==
    /\ gateReq.pc = "auth"
    /\ gateReq' = gateAuth(gateReq, outcome)
    /\ GateOthersIdle

GateLookup(outcome) ==
    /\ gateReq.pc = "lookup"
    /\ gateReq' = gateLookup(gateReq, outcome)
    /\ GateOthersIdle

\* the handler of the request's route runs, reading or writing the store
GateHandler ==
    /\ gateReq.pc = "next"
    /\ gateReq' = [gateReq EXCEPT !.pc = "done", !.ran = TRUE, !.status = 200]
    /\ GateOthersIdle

InitGate ==
    /\ gateReq \in {GateNewRequest(header, route) :
                       header \in AuthHeaders, route \in GateRoutes}
    /\ now = 0
    /\ FilesIdle /\ StatusIdle /\ DbIdle
    /\ RaceIdle /\ CommentsIdle /\ LateIdle /\ InterestsIdle /\ CookieIdle

NextGate ==
    \/ GateStart
    \/ \E outcome \in GateOutcomes : GateAuth(outcome) \/ GateLookup(outcome)
    \/ GateHandler

\* one request to each route of the organizer router, with each header
SpecGate == InitGate /\ [][NextGate]_vars

-----------------------------------------------------------------------------
(* Interests router: the cookie middleware                                 *)

MaxIssued == 3

COOKIE_NAME == "userId"

\* the n-th value randomUUID() returns: each differs from all before it
randomUUID(n) == JStr(<<"uuid", Digits[n + 1]>>)

\* the userId cookie values a client that made one up sends: empty, or text
ForgedCookies == {JStr(<<>>), JStr(<<"x">>), JStr(<<"y">>)}

\* the options of res.cookie(COOKIE_NAME, id, {...}); maxAge is held here in
\* seconds, the code's 1000 * 60 * 60 * 24 * 365 being milliseconds
cookieOptions(production) ==
    [httpOnly |-> TRUE, sameSite |-> "lax", secure |-> production,
     maxAgeSeconds |-> 60 * 60 * 24 * 365, path |-> "/"]

\* a middleware that issues a new id on every request
cookieMiddlewareAlwaysNew(cookie, issued, production) ==
    [userId |-> randomUUID(issued + 1), issued |-> issued + 1,
     setCookie |-> [name |-> COOKIE_NAME, value |-> randomUUID(issued + 1),
                    options |-> cookieOptions(production)]]

\* let id = req.cookies?.[COOKIE_NAME]; if (!id) { id = randomUUID();
\* res.cookie(...) } req.userId = id; next()
cookieMiddleware(cookie, issued, production) ==
    IF ~Truthy(cookie)
    THEN [userId |-> randomUUID(issued + 1), issued |-> issued + 1,
          setCookie |-> [name |-> COOKIE_NAME, value |-> randomUUID(issued + 1),
                         options |-> cookieOptions(production)]]
    ELSE [userId |-> cookie, issued |-> issued, setCookie |-> Null]

\* a request of a client carrying this userId cookie (Undefined: none) passes
\* the middleware; the client keeps the cookie the response sets
CookieRequest(c, cookie, production) ==
    LET out == cookieMiddleware(cookie, ckIssued, production) IN
    /\ out.issued <= MaxIssued
    /\ ckUserId' = [ckUserId EXCEPT ![c] = out.userId]
    /\ ckSetCookie' = out.setCookie
    /\ ckIssued' = out.issued
    /\ ckJar' = [ckJar EXCEPT ![c] =
                    IF out.setCookie # Null THEN out.setCookie.value ELSE cookie]
    /\ UNCHANGED <<now, fileVars, statusVars, dbVars, lateVars, raceVars, commentVars,
                   interestVars, gateVars>>

\* a client sends the cookie it holds, if it holds one
ClientReturns ==
    \E c \in Clients, production \in BOOLEAN : CookieRequest(c, ckJar[c], production)

\* a client sends a cookie value of its own making
ClientForges ==
    \E c \in Clients, cookie \in ForgedCookies, production \in BOOLEAN :
        CookieRequest(c, cookie, production)

\* a cookie's lifetime ends, or the client clears it
JarExpires ==
    /\ \E c \in Clients :
          ckJar[c] # Undefined /\ ckJar' = [ckJar EXCEPT ![c] = Undefined]
    /\ UNCHANGED <<ckUserId, ckSetCookie, ckIssued, now, fileVars, statusVars, dbVars, lateVars,
                   raceVars, commentVars, interestVars, gateVars>>

InitCookie ==
    /\ CookieIdle
    /\ now = 0
    /\ FilesIdle /\ StatusIdle /\ DbIdle
    /\ RaceIdle /\ CommentsIdle /\ LateIdle /\ InterestsIdle /\ GateIdle

NextCookie == ClientReturns \/ ClientForges \/ JarExpires

\* requests of the clients to the interests router
SpecCookie == InitCookie /\ [][NextCookie]_vars

-----------------------------------------------------------------------------
(* File-backed comments: GET, POST and DELETE                              *)

MaxComments == 2

\* the values of body.authorName and body.commentText that requests carry
AuthorNameBodies == {Undefined, JStr(<<" ">>), JStr(<<"a">>)}

CommentTextBodies == {JStr(<<>>), JStr(<<"h", "i">>)}

\* the path values of :eventId that comment requests carry
CommentEventIdParams == {<<"1">>, <<"2">>, <<"a", "b", "c">>}

\* the path values of :commentId: ids are Date.now() values; 9 is none
CommentIdParams == {<<"0">>, <<"1">>, <<"9">>, <<"a", "b", "c">>}

readComments(file, rd) == readFile(file, rd)

writeComments(file, data, wr) == writeFile(file, data, wr)

\* a handler that returns the comments in the order of the store
getCommentsHandlerUnsorted(file, eventId, rd) ==
    LET rdo == readComments(file, rd)
        id == parseInt(JStr(eventId))
        OfEvent(c) == StrictEq(c.event_id, id)
    IN [status |-> 200, body |-> SelectSeq(rdo.data, OfEvent), file |-> rdo.file]

\* GET /api/events/:eventId/comments
getCommentsHandler(file, eventId, rd) ==
    LET rdo == readComments(file, rd)
        id == parseInt(JStr(eventId))
        OfEvent(c) == StrictEq(c.event_id, id)
    IN [status |-> 200, body |-> sortNewestFirst(SelectSeq(rdo.data, OfEvent)),
        file |-> rdo.file]

\* POST /api/events/:eventId/comments
postCommentHandler(file, eventId, authorName, commentText, t, rd, wr) ==
    IF ~Truthy(authorName) \/ ~Truthy(commentText)
    THEN [status |-> 400,
          body |-> ErrorBody("Author name and comment text are required"),
          file |-> file]
    ELSE LET rdo == readComments(file, rd)
             newComment ==
                 [id |-> t, event_id |-> parseInt(JStr(eventId)),
                  author_name |-> authorName, comment_text |-> commentText,
                  created_at |-> t]
         IN [status |-> 201, body |-> JsonRecord(newComment),
             file |-> writeComments(rdo.file, Append(rdo.data, newComment), wr)]

\* a handler that removes only the first comment of the id
deleteCommentHandlerFirstOnly(file, commentId, rd, wr) ==
    LET rdo == readComments(file, rd)
        id == parseInt(JStr(commentId))
        Hit(k) == StrictEq(JInt(rdo.data[k].id), id)
        hits == {k \in 1..Len(rdo.data) : Hit(k)}
        first == IF hits = {} THEN 0 ELSE CHOOSE k \in hits : \A j \in hits : k <= j
        kept == [k \in 1..(Len(rdo.data) - (IF first = 0 THEN 0 ELSE 1)) |->
                    rdo.data[IF first = 0 \/ k < first THEN k ELSE k + 1]]
    IN [status |-> 200, body |-> [message |-> "Comment deleted successfully"],
        file |-> writeComments(rdo.file, kept, wr)]

\* DELETE /api/comments/:commentId
deleteCommentHandler(file, commentId, rd, wr) ==
    LET rdo == readComments(file, rd)
        id == parseInt(JStr(commentId))
        Keep(c) == ~StrictEq(JInt(c.id), id)
    IN [status |-> 200, body |-> [message |-> "Comment deleted successfully"],
        file |-> writeComments(rdo.file, SelectSeq(rdo.data, Keep), wr)]

CommentsOthersIdle ==
    UNCHANGED <<now, attendanceFile, ratingsFile, statusVars, dbVars, lateVars, raceVars,
                interestVars, gateVars, cookieVars>>

GetComments(eventId, rd) ==
    LET out == getCommentsHandler(commentsFile, eventId, rd) IN
    /\ commentsFile' = out.file
    /\ res' = [op |-> "getComments", status |-> out.status, body |-> out.body]
    /\ CommentsOthersIdle

PostComment(eventId, authorName, commentText, rd, wr) ==
    LET out == postCommentHandler(commentsFile, eventId, authorName, commentText,
                                  now, rd, wr)
    IN /\ Len(out.file.data) <= MaxComments
       /\ commentsFile' = out.file
       /\ res' = [op |-> "postComment", status |-> out.status, body |-> out.body]
       /\ CommentsOthersIdle

DeleteComment(commentId, rd, wr) ==
    LET out == deleteCommentHandler(commentsFile, commentId, rd, wr) IN
    /\ commentsFile' = out.file
    /\ res' = [op |-> "deleteComment", status |-> out.status, body |-> out.body]
    /\ CommentsOthersIdle

CommentRequests(E, A, T, C, Rd, Wr) ==
    \E rd \in Rd, wr \in Wr :
        \/ \E eventId \in E : GetComments(eventId, rd)
        \/ \E eventId \in E, authorName \in A, commentText \in T :
              PostComment(eventId, authorName, commentText, rd, wr)
        \/ \E commentId \in C : DeleteComment(commentId, rd, wr)

NextComments ==
    \/ Tick
    \/ CommentRequests(CommentEventIdParams, AuthorNameBodies, CommentTextBodies,
                       CommentIdParams, FsOk, FsOk)

\* the comments endpoints of the file-backed server, on a file system whose
\* reads and writes succeed
SpecComments == Init /\ [][NextComments]_vars

NextCommentsFs ==
    \/ Tick
    \/ CommentRequests({<<"1">>, <<"2">>}, {JStr(<<"a">>)}, {JStr(<<"h", "i">>)},
                       {<<"0">>, <<"9">>}, FsAny, FsAny)

\* the comments endpoints on a file system whose reads and writes may fail
SpecCommentsFs == Init /\ [][NextCommentsFs]_vars

-----------------------------------------------------------------------------
(* Interest routes when an awaited store call rejects                       *)

MaxAnswerRequests == 2

\* the major versions of express an install can resolve: 4 leaves the rejected
\* promise of an async handler alone, 5 passes it to the error handler
ExpressVersions == {4, 5}

\* an async (req, res) => {...} without try/catch whose awaited call rejects:
\* the rest of the handler does not run
awaitRejected(q, express) ==
    IF express = 5 THEN [q EXCEPT !.pc = "done", !.status = 500]
    ELSE [q EXCEPT !.pc = "unanswered"]

IntAwaitRejects(i, express) ==
    /\ intReq[i].pc \in {"new", "insert", "names"}
    /\ intReq' = [intReq EXCEPT ![i] = awaitRejected(@, express)]
    /\ UNCHANGED intRows
    /\ IntOthersIdle

IntStep(i) ==
    \/ \E outcome \in StoreOutcomes :
          \/ IntPostDelete(i, outcome)
          \/ IntPostInsert(i, outcome)
          \/ IntGetSelect(i, outcome)
          \/ IntGetNames(i, outcome)
    \/ \E express \in ExpressVersions : IntAwaitRejects(i, express)

InitAnswer ==
    /\ \E f \in [1..MaxAnswerRequests -> 1..Len(IntNewRequests)] :
          /\ \A k \in 1..(MaxAnswerRequests - 1) : f[k] <= f[k + 1]
          /\ intReq = [k \in 1..MaxAnswerRequests |-> IntNewRequests[f[k]]]
    /\ intRows = {}
    /\ now = 0
    /\ FilesIdle /\ StatusIdle /\ DbIdle
    /\ RaceIdle /\ CommentsIdle /\ LateIdle /\ GateIdle /\ CookieIdle

NextAnswer == \E i \in 1..MaxAnswerRequests : IntStep(i)

\* requests to /interests/me in flight together, each awaited store call
\* returning a result, returning an error or rejecting; the event loop runs
\* every continuation that is ready
SpecAnswer ==
    /\ InitAnswer /\ [][NextAnswer]_vars
    /\ \A i \in 1..MaxAnswerRequests : WF_vars(IntStep(i))

-----------------------------------------------------------------------------
(* Organizer router: committee and expenses create and update               *)

MaxOrgRows == 1

\* the values of body.member_name, body.role and body.expense_category that
\* requests carry; the optional fields are not sent
OrgTextBodies == {Undefined, JStr(<<>>), JStr(<<" ", "a">>)}

\* the values of body.event_id and body.amount that requests carry
OrgNumberBodies == {Undefined, JInt(5)}

\* the values of :member_id and :expense_id: the id of the first row, and an
\* id of no row
OrgIdParams == {1, 9}

\* v.trim() is a TypeError unless v is a string
hasTrim(v) == v.t = "string"

\* parseFloat(v) for the values of OrgNumberBodies: a number is itself,
\* undefined is NaN
parseFloat(v) == IF v.t = "number" THEN v ELSE NaN

OrgFailure(status, msg, table) ==
    [status |-> status, body |-> [success |-> FALSE, error |-> msg], table |-> table]

OrgSuccess(row, table) ==
    [status |-> 200, body |-> [success |-> TRUE, row |-> row], table |-> table]

\* .insert([row]).select(): the table gives the row the next id
storeInsertRow(table, row, idField) ==
    LET stored == [f \in DOMAIN row \cup {idField} |->
                      IF f = idField THEN Cardinality(table) + 1 ELSE row[f]]
    IN [data |-> stored, table |-> table \cup {stored}]

\* .update(values).eq(idField, id).select(): the rows of that id, updated
storeUpdateRows(table, values, idField, id) ==
    LET Updated(r) == [f \in DOMAIN r |-> IF f \in DOMAIN values THEN values[f] ELSE r[f]]
        matched == {r \in table : r[idField] = id}
    IN [data |-> {Updated(r) : r \in matched},
        table |-> (table \ matched) \cup {Updated(r) : r \in matched}]

\* POST /committee
postCommitteeHandler(table, member_name, role, outcome) ==
    IF ~Truthy(member_name) \/ ~Truthy(role)
    THEN OrgFailure(400, "Member name and role are required", table)
    ELSE IF ~hasTrim(member_name) \/ ~hasTrim(role)
    THEN OrgFailure(500, "trim is not a function", table)
    ELSE IF outcome = "error" THEN OrgFailure(500, "store error", table)
    ELSE LET r == storeInsertRow(table,
                     [member_name |-> trim(member_name.s), role |-> trim(role.s),
                      created_at |-> Null], "member_id")
         IN OrgSuccess(r.data, r.table)

\* PUT /committee/:member_id
putCommitteeHandler(table, member_id, member_name, role, t, outcome) ==
    IF ~hasTrim(member_name) \/ ~hasTrim(role)
    THEN OrgFailure(500, "Cannot read properties of undefined (reading 'trim')", table)
    ELSE IF outcome = "error" THEN OrgFailure(500, "store error", table)
    ELSE LET r == storeUpdateRows(table,
                     [member_name |-> trim(member_name.s), role |-> trim(role.s),
                      created_at |-> JInt(t)], "member_id", member_id)
         IN IF r.data = {} THEN OrgFailure(404, "Committee member not found", table)
            ELSE OrgSuccess(CHOOSE x \in r.data : TRUE, r.table)

\* POST /expenses
postExpenseHandler(table, event_id, expense_category, amount, t, outcome) ==
    IF ~Truthy(event_id) \/ ~Truthy(expense_category) \/ ~Truthy(amount)
    THEN OrgFailure(400, "Event, category, and amount are required", table)
    ELSE IF ~hasTrim(expense_category)
    THEN OrgFailure(500, "trim is not a function", table)
    ELSE IF outcome = "error" THEN OrgFailure(500, "store error", table)
    ELSE LET r == storeInsertRow(table,
                     [event_id |-> JsonNumber(parseInt(event_id)),
                      expense_category |-> trim(expense_category.s),
                      amount |-> JsonNumber(parseFloat(amount)),
                      expense_date |-> JInt(t), updated_at |-> Null], "expense_id")
         IN OrgSuccess(r.data, r.table)

\* PUT /expenses/:expense_id; expense_date is not sent and stays as stored
putExpenseHandler(table, expense_id, event_id, expense_category, amount, t, outcome) ==
    IF ~hasTrim(expense_category)
    THEN OrgFailure(500, "Cannot read properties of undefined (reading 'trim')", table)
    ELSE IF outcome = "error" THEN OrgFailure(500, "store error", table)
    ELSE LET r == storeUpdateRows(table,
                     [event_id |-> JsonNumber(parseInt(event_id)),
                      expense_category |-> trim(expense_category.s),
                      amount |-> JsonNumber(parseFloat(amount)),
                      updated_at |-> JInt(t)], "expense_id", expense_id)
         IN IF r.data = {} THEN OrgFailure(404, "Expense not found", table)
            ELSE OrgSuccess(CHOOSE x \in r.data : TRUE, r.table)

OrgOthersIdle ==
    UNCHANGED <<now, attendanceFile, ratingsFile, statusVars, dbVars, raceVars,
                commentVars, interestVars, gateVars, cookieVars, screenVars,
                sectionVars>>

OrgAnswer(op, out) == res' = [op |-> op, status |-> out.status, body |-> out.body]

PostCommittee(member_name, role, outcome) ==
    LET out == postCommitteeHandler(orgCommittee, member_name, role, outcome) IN
    /\ Cardinality(out.table) <= MaxOrgRows
    /\ orgCommittee' = out.table /\ OrgAnswer("postCommittee", out)
    /\ UNCHANGED orgExpenses /\ OrgOthersIdle

PutCommittee(member_id, member_name, role, outcome) ==
    LET out == putCommitteeHandler(orgCommittee, member_id, member_name, role, now,
                                   outcome)
    IN /\ orgCommittee' = out.table /\ OrgAnswer("putCommittee", out)
       /\ UNCHANGED orgExpenses /\ OrgOthersIdle

PostExpense(event_id, expense_category, amount, outcome) ==
    LET out == postExpenseHandler(orgExpenses, event_id, expense_category, amount,
                                  now, outcome)
    IN /\ Cardinality(out.table) <= MaxOrgRows
       /\ orgExpenses' = out.table /\ OrgAnswer("postExpense", out)
       /\ UNCHANGED orgCommittee /\ OrgOthersIdle

PutExpense(expense_id, event_id, expense_category, amount, outcome) ==
    LET out == putExpenseHandler(orgExpenses, expense_id, event_id, expense_category,
                                 amount, now, outcome)
    IN /\ orgExpenses' = out.table /\ OrgAnswer("putExpense", out)
       /\ UNCHANGED orgCommittee /\ OrgOthersIdle

NextOrg ==
    \/ Tick
    \/ \E outcome \in StoreOutcomes, name \in OrgTextBodies, role \in OrgTextBodies :
          \/ PostCommittee(name, role, outcome)
          \/ \E id \in OrgIdParams : PutCommittee(id, name, role, outcome)
    \/ \E outcome \in StoreOutcomes, n \in OrgNumberBodies, name \in OrgTextBodies,
          amount \in OrgNumberBodies :
          \/ PostExpense(n, name, amount, outcome)
          \/ \E id \in OrgIdParams : PutExpense(id, n, name, amount, outcome)

\* the committee and expenses routes of an organizer whom requireOrganizer
\* has let through, each store call succeeding or returning an error
SpecOrg == Init /\ [][NextOrg]_vars

-----------------------------------------------------------------------------
(* Dashboard: EventsScreen filter, sort and saved events                    *)

MaxEvents == 2

\* the rows GET /api/events can return: event_id and event_title (no id, no
\* title), start_time and end_time as milliseconds
EventRows ==
    {[event_id |-> 1, event_title |-> <<"A", "b">>, categories |-> {"x"},
      start_time |-> 1, end_time |-> 1],
     [event_id |-> 2, event_title |-> <<"b">>, categories |-> {"y"},
      start_time |-> 0, end_time |-> 0],
     [event_id |-> 3, event_title |-> <<"B">>, categories |-> {},
      start_time |-> 2, end_time |-> 3],
     [event_id |-> 4, event_title |-> <<"a", "b">>, categories |-> {"x", "y"},
      start_time |-> 1, end_time |-> 2]}

\* the lists of distinct rows of at most MaxEvents events, in any order
EventLists ==
    {es \in UNION {[1..n -> EventRows] : n \in 0..MaxEvents} :
        \A j, k \in 1..Len(es) : j # k => es[j] # es[k]}

\* the texts typed into the search field
SearchTerms == {<<>>, <<"A">>}

CategoryNames == {"x", "y"}

\* getEventId(event): event.id || event.event_id, for rows without id
getEventId(event) == event.event_id

lowerCase(c) == CASE c = "A" -> "a" [] c = "B" -> "b" [] OTHER -> c

\* String.prototype.toLowerCase
toLowerCase(cs) == [k \in 1..Len(cs) |-> lowerCase(cs[k])]

\* String.prototype.includes
includes(cs, part) ==
    \E k \in 0..(Len(cs) - Len(part)) : SubSeq(cs, k + 1, k + Len(part)) = part

\* Array.prototype.includes
listIncludes(xs, x) == \E k \in 1..Len(xs) : xs[k] = x

\* the callback of displayedEvents.filter(...)
matchesFilters(event, searchTerm, selectedCategories) ==
    LET matchesSearch ==
            searchTerm = <<>>
            \/ includes(toLowerCase(event.event_title), toLowerCase(searchTerm))
        matchesCategory ==
            selectedCategories = <<>>
            \/ \E c \in event.categories : listIncludes(selectedCategories, c)
    IN matchesSearch /\ matchesCategory

statusOrder(label) ==
    CASE label = "On Going" -> 0 [] label = "Up Coming" -> 1 [] label = "Ended" -> 2

\* a comparator that orders by start_time alone
compareEventsByDate(a, b, t) == a.start_time - b.start_time

\* the comparator of filteredEvents.sort(...), new Date() being t
compareEvents(a, b, t) ==
    LET statusA == getEventStatus(a.start_time, a.end_time, t)
        statusB == getEventStatus(b.start_time, b.end_time, t)
    IN IF statusA = statusB THEN a.start_time - b.start_time
       ELSE statusOrder(statusA) - statusOrder(statusB)

\* e placed in a sorted list behind every event the comparator does not put
\* after it (Array.prototype.sort is stable)
RECURSIVE insertEvent(_, _, _)
insertEvent(e, sorted, t) ==
    IF sorted = <<>> THEN <<e>>
    ELSE IF compareEvents(Head(sorted), e, t) <= 0
    THEN <<Head(sorted)>> \o insertEvent(e, Tail(sorted), t)
    ELSE <<e>> \o sorted

RECURSIVE sortEvents(_, _)
sortEvents(es, t) ==
    IF es = <<>> THEN <<>>
    ELSE insertEvent(es[Len(es)], sortEvents(SubSeq(es, 1, Len(es) - 1), t), t)

\* the body of EventsScreen from displayedEvents to the sorted filteredEvents
filteredEvents(evs, savedEvents, showSaved, searchTerm, selectedCategories, t) ==
    LET Saved(e) == listIncludes(savedEvents, getEventId(e))
        Matches(e) == matchesFilters(e, searchTerm, selectedCategories)
        displayedEvents == IF showSaved THEN SelectSeq(evs, Saved) ELSE evs
    IN sortEvents(SelectSeq(displayedEvents, Matches), t)

\* an updater that appends the id whether or not the list holds it
toggleSavedAppending(prev, eventId) == Append(prev, eventId)

\* toggleSave's updater: the id removed when present, appended when not
toggleSaved(prev, eventId) ==
    LET Other(e) == e # eventId IN
    IF listIncludes(prev, eventId) THEN SelectSeq(prev, Other)
    ELSE Append(prev, eventId)

\* the decimal digits of a natural number
RECURSIVE numberChars(_)
numberChars(n) ==
    IF n < 10 THEN <<Digits[n + 1]>>
    ELSE numberChars(n \div 10) \o <<Digits[(n % 10) + 1]>>

\* JSON.stringify of an array of numeric ids: "[1,2]"
RECURSIVE stringifyItems(_)
stringifyItems(ids) ==
    IF ids = <<>> THEN <<>>
    ELSE IF Len(ids) = 1 THEN numberChars(ids[1])
    ELSE numberChars(ids[1]) \o <<",">> \o stringifyItems(Tail(ids))

stringify(ids) == <<"[">> \o stringifyItems(ids) \o <<"]">>

\* the numbers of a comma-separated text, left to right
RECURSIVE parseItems(_)
parseItems(cs) ==
    IF cs = <<>> THEN <<>>
    ELSE LET ds == DigitPrefix(cs)
             rest == SubSeq(cs, Len(ds) + 1, Len(cs))
         IN <<DigitsValue(ds)>>
            \o (IF rest = <<>> THEN <<>> ELSE parseItems(Tail(rest)))

\* JSON.parse of the text of an array of numeric ids
parse(text) == parseItems(SubSeq(text, 2, Len(text) - 1))

\* the ids of the loaded events
EventIds == {getEventId(uiEvents[k]) : k \in 1..Len(uiEvents)}

\* one more call counted: 0, 1, 2, then 1 and 2 in turn (the parity is kept)
counted(n) == IF n = 2 THEN 1 ELSE n + 1

ScreenOthersIdle ==
    UNCHANGED <<fileVars, statusVars, dbVars, raceVars, commentVars, interestVars,
                gateVars, cookieVars, orgVars, sectionVars>>

\* React renders the component again with the state as updated; the effects
\* of the render before are flushed before a new render starts
Render(savedEvents, showSaved, searchTerm, selectedCategories) ==
    /\ ~uiEffectPending
    /\ uiSavedEvents' = savedEvents
    /\ uiShowSaved' = showSaved
    /\ uiSearchTerm' = searchTerm
    /\ uiSelectedCategories' = selectedCategories
    /\ uiFiltered' = filteredEvents(uiEvents, savedEvents, showSaved, searchTerm,
                                    selectedCategories, now)
    /\ uiRenderedAt' = now
    /\ UNCHANGED <<now, uiEvents, uiCookie>>
    /\ ScreenOthersIdle

\* onChange of the search field
SetSearchTerm(term) ==
    /\ Render(uiSavedEvents, uiShowSaved, term, uiSelectedCategories)
    /\ UNCHANGED <<uiEffectPending, uiToggles>>

\* onChange of a category checkbox
CheckCategory(cat) ==
    LET Other(c) == c # cat IN
    /\ Render(uiSavedEvents, uiShowSaved, uiSearchTerm,
              IF listIncludes(uiSelectedCategories, cat)
              THEN SelectSeq(uiSelectedCategories, Other)
              ELSE Append(uiSelectedCategories, cat))
    /\ UNCHANGED <<uiEffectPending, uiToggles>>

\* the All Events and Saved buttons
SetShowSaved(b) ==
    /\ Render(uiSavedEvents, b, uiSearchTerm, uiSelectedCategories)
    /\ UNCHANGED <<uiEffectPending, uiToggles>>

\* the Save / Remove button of a displayed event: toggleSave(event); the
\* updater returns a new array, so the effect on [savedEvents] is scheduled
ToggleSave(k) ==
    /\ k \in 1..Len(uiFiltered)
    /\ LET eventId == getEventId(uiFiltered[k]) IN
       /\ Render(toggleSaved(uiSavedEvents, eventId), uiShowSaved,
                 uiSearchTerm, uiSelectedCategories)
       /\ uiToggles' = [uiToggles EXCEPT ![eventId] = counted(@)]
    /\ uiEffectPending' = TRUE

\* the effect on [savedEvents]: the cookie set to the list, removed for []
PersistSavedEvents ==
    /\ uiEffectPending
    /\ uiCookie' = IF Len(uiSavedEvents) > 0 THEN JStr(stringify(uiSavedEvents))
                   ELSE Undefined
    /\ uiEffectPending' = FALSE
    /\ UNCHANGED <<now, uiEvents, uiSavedEvents, uiShowSaved, uiSearchTerm,
                   uiSelectedCategories, uiFiltered, uiRenderedAt, uiToggles>>
    /\ ScreenOthersIdle

\* a render caused by any other state (expanded event, rating section)
Rerender ==
    /\ Render(uiSavedEvents, uiShowSaved, uiSearchTerm, uiSelectedCategories)
    /\ UNCHANGED <<uiEffectPending, uiToggles>>

\* time passes; nothing renders
ScreenTick ==
    /\ now < MaxClock
    /\ now' = now + 1
    /\ UNCHANGED screenVars
    /\ ScreenOthersIdle

InitScreen ==
    /\ now = 0
    /\ uiEvents \in EventLists
    /\ uiSavedEvents = <<>> /\ uiShowSaved = FALSE
    /\ uiSearchTerm = <<>> /\ uiSelectedCategories = <<>>
    /\ uiFiltered = filteredEvents(uiEvents, <<>>, FALSE, <<>>, <<>>, 0)
    /\ uiRenderedAt = 0
    /\ uiCookie = Undefined /\ uiEffectPending = FALSE
    /\ uiToggles = [id \in EventIds |-> 0]
    /\ FilesIdle /\ StatusIdle /\ DbIdle
    /\ RaceIdle /\ CommentsIdle /\ InterestsIdle /\ GateIdle /\ CookieIdle /\ OrgIdle
    /\ SectionIdle

NextScreen ==
    \/ ScreenTick
    \/ Rerender
    \/ \E term \in SearchTerms : SetSearchTerm(term)
    \/ \E cat \in CategoryNames : CheckCategory(cat)
    \/ \E b \in BOOLEAN : SetShowSaved(b)
    \/ \E k \in 1..MaxEvents : ToggleSave(k)
    \/ PersistSavedEvents

\* the events screen once the events are loaded: the user searches, picks
\* categories, saves and removes events, switches views, while time passes
SpecScreen == InitScreen /\ [][NextScreen]_vars

-----------------------------------------------------------------------------
(* File-backed server: attendance with check-attendance                     *)

\* GET /api/events/:eventId/check-attendance/:userName
checkAttendanceHandler(file, eventId, userName, rd) ==
    LET rdo == readAttendance(file, rd)
        id == parseInt(JStr(eventId))
        isAttending ==
            \E k \in 1..Len(rdo.data) :
                /\ StrictEq(rdo.data[k].event_id, id)
                /\ rdo.data[k].user_name = userName
    IN [status |-> 200, body |-> [isAttending |-> isAttending], file |-> rdo.file]

CheckAttendance(eventId, userName, rd) ==
    LET out == checkAttendanceHandler(attendanceFile, eventId, userName, rd) IN
    /\ attendanceFile' = out.file
    /\ res' = [op |-> "checkAttendance", status |-> out.status, body |-> out.body]
    /\ UNCHANGED <<now, ratingsFile, statusVars, dbVars, extVars>>

\* the path values of :userName
UserNameParams == {<<"a">>, <<"b">>}

NextCancel ==
    \/ Next
    \/ \E eventId \in EventIdParams, userName \in UserNameParams :
          CheckAttendance(eventId, userName, "ok")

\* the attendance and rating endpoints together with check-attendance
SpecCancel == Init /\ [][NextCancel]_vars

-----------------------------------------------------------------------------
(* Dashboard: RatingSection of one event against the file-backed server     *)

MaxChecks == 2

\* the texts typed into the name field
SectionUserNames == {<<>>, <<"a">>, <<"b", " ">>}

\* the event the section belongs to, and its id in the request paths
sectionEvent == events[1]

sectionEventId == <<"1">>

\* ratings.json before the section is opened: empty, or a rating of 3 by a
StoredRatingFiles ==
    {NoFile,
     [exists |-> TRUE,
      data |-> <<[rating_id |-> 0, event_id |-> JInt(1), user_name |-> <<"a">>,
                  rating |-> JInt(3), created_at |-> 0]>>]}

\* GET /api/events/:eventId/check-rating/:userName
checkRatingHandler(file, eventId, userName, rd) ==
    LET rdo == readRatings(file, rd)
        id == parseInt(JStr(eventId))
        hits == {k \in 1..Len(rdo.data) :
                    /\ StrictEq(rdo.data[k].event_id, id)
                    /\ rdo.data[k].user_name = userName}
        first == CHOOSE k \in hits : \A j \in hits : k <= j
    IN [status |-> 200,
        body |-> [hasRated |-> hits # {},
                  userRating |-> IF hits # {} THEN rdo.data[first].rating ELSE Null],
        file |-> rdo.file]

\* the eventStatus prop: status.label of the last render of EventsScreen
eventStatusProp ==
    getEventStatus(sectionEvent.start_time, sectionEvent.end_time, uiRenderedAt)

isEnded == eventStatusProp = "Ended"

SectionOthersIdle ==
    UNCHANGED <<attendanceFile, res, statusVars, dbVars, raceVars, commentVars,
                interestVars, gateVars, cookieVars, orgVars, uiEvents, uiSavedEvents,
                uiShowSaved, uiSearchTerm, uiSelectedCategories, uiFiltered,
                uiCookie, uiEffectPending, uiToggles>>

SectionTick ==
    /\ now < MaxClock
    /\ now' = now + 1
    /\ UNCHANGED <<ratingsFile, uiRenderedAt, sectionVars>>
    /\ SectionOthersIdle

\* EventsScreen renders again
ParentRender ==
    /\ uiRenderedAt' = now
    /\ UNCHANGED <<now, ratingsFile, sectionVars>>
    /\ SectionOthersIdle

\* the Rate button, enabled on an event rendered as Ended: the section mounts
\* with its initial state; its userName effect sends nothing for ''
OpenRating ==
    /\ ~rsOpen /\ isEnded
    /\ rsOpen' = TRUE
    /\ uiRenderedAt' = now
    /\ UNCHANGED <<now, ratingsFile, rsUserName, rsSelectedRating, rsHasRated,
                   rsLoading, rsChecks, rsPost, rsSucceeded>>
    /\ SectionOthersIdle

\* the form is rendered when isEnded and not hasRated
FormShown == rsOpen /\ isEnded /\ ~rsHasRated

\* onChange of the name field, then the [userName] effect: checkUserRating
\* sends GET check-rating for the trimmed name when it is not empty
SetUserName(v) ==
    /\ FormShown /\ ~rsLoading
    /\ v # rsUserName
    /\ rsUserName' = v
    /\ IF trim(v) # <<>>
       THEN /\ Len(rsChecks) < MaxChecks
            /\ rsChecks' = Append(rsChecks, [userName |-> trim(v), answered |-> FALSE,
                                             body |-> Null])
       ELSE UNCHANGED rsChecks
    /\ UNCHANGED <<now, ratingsFile, uiRenderedAt, rsOpen, rsSelectedRating, rsHasRated,
                   rsLoading, rsPost, rsSucceeded>>
    /\ SectionOthersIdle

\* a click on a star of the form
SelectRating(star) ==
    /\ FormShown
    /\ rsSelectedRating' = JInt(star)
    /\ UNCHANGED <<now, ratingsFile, uiRenderedAt, rsOpen, rsUserName, rsHasRated,
                   rsLoading, rsChecks, rsPost, rsSucceeded>>
    /\ SectionOthersIdle

\* the server handles one of the check-rating requests
ServerCheck(k) ==
    /\ k \in 1..Len(rsChecks) /\ ~rsChecks[k].answered
    /\ LET out == checkRatingHandler(ratingsFile, sectionEventId,
                                     rsChecks[k].userName, "ok")
       IN /\ ratingsFile' = out.file
          /\ rsChecks' = [rsChecks EXCEPT ![k] = [@ EXCEPT !.answered = TRUE,
                                                           !.body = out.body]]
    /\ UNCHANGED <<now, uiRenderedAt, rsOpen, rsUserName, rsSelectedRating, rsHasRated,
                   rsLoading, rsPost, rsSucceeded>>
    /\ SectionOthersIdle

\* checkUserRating after its awaits: setHasRated, setUserRating and, when the
\* user has rated, setSelectedRating
checked(body, hasRated, selectedRating) ==
    [hasRated |-> body.hasRated,
     selectedRating |-> IF body.hasRated THEN body.userRating ELSE selectedRating]

\* the response of one check-rating request reaches the section
CheckResponse(k) ==
    /\ k \in 1..Len(rsChecks) /\ rsChecks[k].answered
    /\ LET out == checked(rsChecks[k].body, rsHasRated, rsSelectedRating)
       IN rsHasRated' = out.hasRated /\ rsSelectedRating' = out.selectedRating
    /\ rsChecks' = [j \in 1..(Len(rsChecks) - 1) |->
                       rsChecks[IF j < k THEN j ELSE j + 1]]
    /\ UNCHANGED <<now, ratingsFile, uiRenderedAt, rsOpen, rsUserName, rsLoading,
                   rsPost, rsSucceeded>>
    /\ SectionOthersIdle

\* submitRating up to the fetch: both validations pass, loading is set and
\* the POST is sent
SubmitRating ==
    /\ FormShown /\ ~rsLoading
    /\ trim(rsUserName) # <<>>
    /\ rsSelectedRating # JInt(0)
    /\ rsLoading' = TRUE
    /\ rsPost' = [userName |-> JStr(trim(rsUserName)), rating |-> rsSelectedRating,
                  answered |-> FALSE, status |-> 0]
    /\ UNCHANGED <<now, ratingsFile, uiRenderedAt, rsOpen, rsUserName, rsSelectedRating,
                   rsHasRated, rsChecks, rsSucceeded>>
    /\ SectionOthersIdle

\* the server handles the rating POST
ServerRating ==
    /\ rsPost # Null /\ ~rsPost.answered
    /\ LET out == ratingHandler(ratingsFile, sectionEventId, rsPost.userName,
                                rsPost.rating, now, "ok", "ok")
       IN /\ ratingsFile' = out.file
          /\ rsPost' = [rsPost EXCEPT !.answered = TRUE, !.status = out.status]
    /\ UNCHANGED <<now, uiRenderedAt, rsOpen, rsUserName, rsSelectedRating, rsHasRated,
                   rsLoading, rsChecks, rsSucceeded>>
    /\ SectionOthersIdle

\* submitRating after the fetch: hasRated on response.ok, loading reset
PostResponse ==
    /\ rsPost # Null /\ rsPost.answered
    /\ rsHasRated' = IF rsPost.status = 201 THEN TRUE ELSE rsHasRated
    /\ rsSucceeded' = (rsSucceeded \/ rsPost.status = 201)
    /\ rsLoading' = FALSE
    /\ rsPost' = Null
    /\ UNCHANGED <<now, ratingsFile, uiRenderedAt, rsOpen, rsUserName, rsSelectedRating,
                   rsChecks>>
    /\ SectionOthersIdle

InitSection ==
    /\ now = 0
    /\ ratingsFile \in StoredRatingFiles
    /\ attendanceFile = NoFile /\ res = NoResponse
    /\ StatusIdle /\ DbIdle
    /\ RaceIdle /\ CommentsIdle /\ InterestsIdle /\ GateIdle /\ CookieIdle /\ OrgIdle
    /\ ScreenIdle /\ SectionIdle

NextSection ==
    \/ SectionTick
    \/ ParentRender
    \/ OpenRating
    \/ \E v \in SectionUserNames : SetUserName(v)
    \/ \E star \in 1..5 : SelectRating(star)
    \/ \E k \in 1..MaxChecks : ServerCheck(k) \/ CheckResponse(k)
    \/ SubmitRating
    \/ ServerRating
    \/ PostResponse

\* one RatingSection: the user edits the name, picks stars and submits while
\* the check-rating and rating requests are answered in any order
SpecSection == InitSection /\ [][NextSection]_vars

-----------------------------------------------------------------------------
(* Properties                                                              *)

\* a record's JSON number field equals the JSON form of the number v
SameJson(a, v) == a.t = JsonNumber(v).t /\ (a.t = "number" => a.x10 = JsonNumber(v).x10)

\* the number of records of rs with this event_id and user_name
CountPair(rs, event_id, user_name) ==
    Cardinality({i \in 1..Len(rs) :
        SameJson(rs[i].event_id, event_id) /\ rs[i].user_name = user_name})

\* C1: getEventStatus returns "On Going" when start <= now <= end (bounds
\* included), "Up Coming" when now < start and "Ended" in every other case,
\* in which now > end.
C1_StatusLabels ==
    stLabel # "none" =>
        /\ stLabel \in {"On Going", "Up Coming", "Ended"}
        /\ (stStart <= stNow /\ stNow <= stEnd) => stLabel = "On Going"
        /\ stNow < stStart => stLabel = "Up Coming"
        /\ (~(stStart <= stNow /\ stNow <= stEnd) /\ ~(stNow < stStart)) =>
               (stLabel = "Ended" /\ stNow > stEnd)

C1_BoundaryOnGoing ==
    stLabel = "On Going" /\ stNow > 0 /\ stStart = stNow /\ stEnd = stNow

\* C2: every stored rating was created when its event's status was "Ended".
C2_RatedOnlyWhenEnded ==
    \A i \in 1..Len(ratingsFile.data) : \A k \in 1..Len(events) :
        SameJson(ratingsFile.data[i].event_id, JInt(events[k].event_id)) =>
            getEventStatus(events[k].start_time, events[k].end_time,
                           ratingsFile.data[i].created_at) = "Ended"

\* C3: after an attend request answered 201, the next attend request for the
\* same event and a userName trimming to the same string is answered 400
\* 'Already marked as attending' and one record exists for the pair.
C3_SecondAttendRejected ==
    [][(res.op = "attend" /\ res.status = 201) =>
          \A eventId \in EventIdParams, userName \in UserNameBodies :
              (/\ userName.t = "string"
               /\ trim(userName.s) = res.body.user_name
               /\ SameJson(res.body.event_id, parseInt(JStr(eventId)))
               /\ PostAttend(eventId, userName, "ok", "ok"))
              => /\ res'.status = 400
                 /\ res'.body = ErrorBody("Already marked as attending")
                 /\ CountPair(attendanceFile'.data, res.body.event_id,
                              res.body.user_name) = 1]_vars

\* C4: each store holds at most one record per (event id, trimmed user name).
C4_OnePerPair ==
    /\ \A i, j \in 1..Len(attendanceFile.data) :
           (/\ SameJson(attendanceFile.data[i].event_id, attendanceFile.data[j].event_id)
            /\ attendanceFile.data[i].user_name = attendanceFile.data[j].user_name)
           => i = j
    /\ \A i, j \in 1..Len(ratingsFile.data) :
           (/\ SameJson(ratingsFile.data[i].event_id, ratingsFile.data[j].event_id)
            /\ ratingsFile.data[i].user_name = ratingsFile.data[j].user_name)
           => i = j

NonEmptyName(userName) == userName.t = "string" /\ trim(userName.s) # <<>>

\* C5: a rating of 0, of 6 or of "abc" with a non-empty userName is answered
\* 400 and no rating record is created.
C5_BadRatingRejected ==
    [][\A eventId \in EventIdParams, userName \in UserNameBodies,
          rating \in {JInt(0), JInt(6), JStr(<<"a", "b", "c">>)} :
          (NonEmptyName(userName) /\ PostRating(eventId, userName, rating, "ok", "ok"))
          => (res'.status = 400 /\ ratingsFile'.data = ratingsFile.data)]_vars

IsIntegerRating(v) == v.t = "number" /\ \E k \in 1..5 : v.x10 = 10 * k

\* C6: every stored rating is an integer in 1..5, and a submission whose
\* rating is not an integer in 1..5 is rejected and not stored.
C6_IntegerRatingsOnly ==
    [][/\ \A i \in 1..Len(ratingsFile'.data) : IsIntegerRating(ratingsFile'.data[i].rating)
       /\ \A eventId \in EventIdParams, userName \in UserNameBodies,
             rating \in RatingBodies :
             (~IsIntegerRating(rating) /\ PostRating(eventId, userName, rating, "ok", "ok"))
             => (res'.status # 201 /\ ratingsFile'.data = ratingsFile.data)]_vars

\* C8: an attend or rating call answered 201 has appended exactly its record,
\* with the trimmed userName, to the store; a call answered with an error has
\* left the store as it was.
C8_OneRecordPerAcceptedCall ==
    [][/\ \A eventId \in FsEventIdParams, userName \in FsUserNameBodies, wr \in FsAny :
             PostAttend(eventId, userName, "ok", wr) =>
                 IF res'.status = 201
                 THEN /\ attendanceFile'.data = Append(attendanceFile.data, res'.body)
                      /\ res'.body.user_name = trim(userName.s)
                 ELSE attendanceFile'.data = attendanceFile.data
       /\ \A eventId \in FsEventIdParams, userName \in FsUserNameBodies,
             rating \in FsRatingBodies, wr \in FsAny :
             PostRating(eventId, userName, rating, "ok", wr) =>
                 IF res'.status = 201
                 THEN /\ ratingsFile'.data = Append(ratingsFile.data, res'.body)
                      /\ res'.body.user_name = trim(userName.s)
                 ELSE ratingsFile'.data = ratingsFile.data]_vars

\* record a is the attendance record of exactly this eventId and userName
C9Match(a, eventId, userName) ==
    /\ a.event_id.t = "number"
    /\ parseInt(JStr(eventId)).t = "number"
    /\ a.event_id.x10 = parseInt(JStr(eventId)).x10
    /\ userName.t = "string"
    /\ userName.s = a.user_name

\* C9: un-attend with a non-empty userName is answered 200, removes the
\* records of the exact (eventId, userName) pair and no other, leaves no
\* record of the pair behind, and changes nothing when the pair has none.
C9_RemoveExactPair ==
    [][\A eventId \in EventIdParams, userName \in UserNameBodies, wr \in FsAny :
          (Truthy(userName) /\ DeleteAttend(eventId, userName, "ok", wr)) =>
              LET old == attendanceFile.data
                  new == attendanceFile'.data
                  Other(a) == ~C9Match(a, eventId, userName)
              IN /\ res'.status = 200
                 /\ new = SelectSeq(old, Other)
                 /\ \A i \in 1..Len(new) : Other(new[i])
                 /\ (\A i \in 1..Len(old) : Other(old[i])) => new = old]_vars

\* the stored ratings whose event is the one eventId names
RatingsOf(rs, eventId) ==
    {i \in 1..Len(rs) :
        /\ parseInt(JStr(eventId)).t = "number"
        /\ rs[i].event_id.t = "number"
        /\ rs[i].event_id.x10 = parseInt(JStr(eventId)).x10}

RECURSIVE SumOver(_, _)
SumOver(rs, I) ==
    IF I = {} THEN 0
    ELSE LET i == CHOOSE j \in I : TRUE IN rs[i].rating.x10 + SumOver(rs, I \ {i})

\* the ratings 5, 5, 5 and 4, in any order
IsFiveFiveFiveFour(rs, I) ==
    /\ Cardinality(I) = 4
    /\ Cardinality({i \in I : rs[i].rating.x10 = 50}) = 3
    /\ Cardinality({i \in I : rs[i].rating.x10 = 40}) = 1

DbSamePair(i) ==
    {j \in 1..MaxDbRequests :
        /\ dbReq[j].kind = dbReq[i].kind
        /\ parseInt(JStr(dbReq[j].eventId)) = parseInt(JStr(dbReq[i].eventId))
        /\ trim(dbReq[j].userName.s) = trim(dbReq[i].userName.s)}

DbRowsOf(i) ==
    {k \in 1..Len(DbTable(dbReq[i].kind)) :
        /\ DbTable(dbReq[i].kind)[k].event_id = parseInt(JStr(dbReq[i].eventId))
        /\ DbTable(dbReq[i].kind)[k].user_name = trim(dbReq[i].userName.s)}

\* C10: once all concurrent submissions for one (eventId, trimmed userName)
\* pair are answered, exactly one is answered 201, each other one 400 with
\* the conflict message, and exactly one row of the pair is stored.
C10_OneWinner ==
    \A i \in 1..MaxDbRequests :
        (NonEmptyName(dbReq[i].userName) /\ \A j \in DbSamePair(i) : dbReq[j].pc = "done") =>
            /\ Cardinality({j \in DbSamePair(i) : dbReq[j].status = 201}) = 1
            /\ \A j \in DbSamePair(i) :
                   dbReq[j].status # 201 =>
                       /\ dbReq[j].status = 400
                       /\ dbReq[j].body = ErrorBody(dbConflictMessage(dbReq[j].kind))
            /\ Cardinality(DbRowsOf(i)) = 1

C10_TwoCompeted ==
    /\ dbReq[1].pc = "done"
    /\ dbReq[2].pc = "done"
    /\ 2 \in DbSamePair(1)
    /\ dbReq[1].userName # dbReq[2].userName
    /\ dbReq[1].status = 400
    /\ dbReq[2].status = 201

\* the requests of the concurrent run that were answered 201 and whose
\* write took effect
RaceAccepted == {i \in 1..Len(raceReq) : raceReq[i].pc = "done" /\ raceReq[i].wrote}

\* an accepted update is lost: the record of such a request is not in the
\* store, or the store holds fewer records than were written
RaceLostUpdate ==
    \/ \E i \in RaceAccepted :
          \A k \in 1..Len(attendanceFile.data) : attendanceFile.data[k] # raceReq[i].body
    \/ Len(attendanceFile.data) < Cardinality(RaceAccepted)

\* two records hold the same event number and user name
RaceDuplicatePair ==
    \E j, k \in 1..Len(attendanceFile.data) :
        /\ j < k
        /\ attendanceFile.data[j].event_id.t = "number"
        /\ attendanceFile.data[j].event_id = attendanceFile.data[k].event_id
        /\ attendanceFile.data[j].user_name = attendanceFile.data[k].user_name

InterestsOf(userId) == {r[2] : r \in {x \in intRows : x[1] = userId}}

\* the distinct ids, as strings, of the list a POST /me body carries
PostedIds(body) ==
    IF body.t = "array" THEN {String(body.xs[k]) : k \in 1..Len(body.xs)} ELSE {}

\* request k of the same user as request j did not run while or after j ran:
\* it has not started, or was answered before j started
IntOutOfTheWay(k, j) ==
    \/ intReq[k].userId # intReq[j].userId
    \/ intReq[k].pc = "new"
    \/ k \in intReq[j].startedAfter

\* C12: a GET /me answered 200 that started after a POST /me of the same user
\* was answered 200, no other request of that user having run since that POST
\* started, returns exactly the categories of the distinct ids posted.
C12_PostThenGet ==
    \A i, j \in 1..Len(intReq) :
        (/\ intReq[i].kind = "get" /\ intReq[i].pc = "done" /\ intReq[i].status = 200
         /\ intReq[j].kind = "post" /\ intReq[j].status = 200
         /\ intReq[j].body.t = "array"
         /\ intReq[j].userId = intReq[i].userId
         /\ j \in intReq[i].startedAfter
         /\ \A k \in 1..Len(intReq) \ {i, j} : IntOutOfTheWay(k, j))
        => /\ {c.category_id : c \in intReq[i].saved} = PostedIds(intReq[j].body)
           /\ Cardinality(intReq[i].saved) = Cardinality(PostedIds(intReq[j].body))

\* posting ["2","2","3"] over an earlier interest 4, then reading: exactly the
\* categories 2 and 3 are returned
C12_TwoTwoThree ==
    \E i, j, k \in 1..Len(intReq) :
        /\ intReq[i].kind = "get" /\ intReq[i].pc = "done" /\ intReq[i].status = 200
        /\ intReq[j].kind = "post" /\ intReq[j].status = 200
        /\ intReq[j].body = JArr(<<JStr(<<"2">>), JStr(<<"2">>), JStr(<<"3">>)>>)
        /\ intReq[k].kind = "post" /\ intReq[k].status = 200
        /\ intReq[k].body = JArr(<<JStr(<<"4">>)>>)
        /\ intReq[i].userId = "u1" /\ intReq[j].userId = "u1" /\ intReq[k].userId = "u1"
        /\ k \in intReq[j].startedAfter /\ j \in intReq[i].startedAfter
        /\ {c.category_id : c \in intReq[i].saved} = {<<"2">>, <<"3">>}

\* C13: when the insert of a POST /me fails the answer is 500, the failed
\* insert stores nothing and, no other request of the user having run since
\* this one started, the user has no stored interest; when the delete fails
\* the answer is 500, no insert follows and the stored rows are unchanged.
C13_FailureAnswered500 ==
    [][\A i \in 1..Len(intReq) :
          /\ IntPostInsert(i, "error") =>
                /\ intReq'[i].pc = "done" /\ intReq'[i].status = 500
                /\ intRows' = intRows
                /\ (\A k \in 1..Len(intReq) \ {i} :
                       intReq[k].kind = "get" \/ IntOutOfTheWay(k, i))
                   => InterestsOf(intReq[i].userId)' = {}
          /\ IntPostDelete(i, "error") =>
                /\ intReq'[i].pc = "done" /\ intReq'[i].status = 500
                /\ intRows' = intRows]_vars

\* a user whose earlier POST stored interests is left with none by a later
\* POST of a non-empty list that was answered 500
C13_LeftWithNothing ==
    \E j, k \in 1..Len(intReq) :
        /\ intReq[j].kind = "post" /\ intReq[j].pc = "done" /\ intReq[j].status = 500
        /\ intReq[j].categories # <<>>
        /\ intReq[k].kind = "post" /\ intReq[k].status = 200 /\ intReq[k].saved # <<>>
        /\ intReq[k].userId = intReq[j].userId
        /\ k \in intReq[j].startedAfter
        /\ \A m \in 1..Len(intReq) \ {j, k} : intReq[m].pc = "new"
        /\ InterestsOf(intReq[j].userId) = {}

\* the POST /me requests of a user
PostsOf(userId) ==
    {j \in 1..Len(intReq) : intReq[j].kind = "post" /\ intReq[j].userId = userId}

\* C14: once every POST /me of a user has been answered 200, the user's stored
\* interests are the distinct ids of one of the posted lists.
C14_NeverAMixture ==
    \A userId \in UserIds :
        (/\ PostsOf(userId) # {}
         /\ \A j \in PostsOf(userId) : intReq[j].pc = "done" /\ intReq[j].status = 200)
        => \E j \in PostsOf(userId) : InterestsOf(userId) = PostedIds(intReq[j].body)

\* C15: the handler of a route of the organizer router runs, or next() has
\* been called, only for a request whose bearer credential the auth layer
\* resolved to an identity that table users holds with role "organizer".
C15_HandlerOnlyForOrganizer ==
    (gateReq.ran \/ gateReq.pc = "next") =>
        /\ gateReq.header.t = "string"
        /\ \E a \in authIdentities :
              /\ a.token = replaceBearer(gateReq.header.s)
              /\ gateReq.auth.user = [email |-> a.email]
              /\ \E u \in usersTable :
                    u.email = a.email /\ u.role = "organizer" /\ gateReq.user = u

\* the handler of a debug route and of a stats route has run
C15_DebugRouteRan ==
    gateReq.ran /\ gateReq.route \in {"GET /committee/debug", "GET /expenses/stats"}

\* the request was answered by the gate without next() being called
GateRefused(status) ==
    gateReq.pc = "done" /\ gateReq.status = status /\ ~gateReq.ran

\* C16: missing Authorization header, 401; empty credential, 401; credential
\* the auth layer does not resolve, 401; identity not in table users, 403;
\* identity with a role other than "organizer", 403; next() is not called.
C16_FailureStatuses ==
    /\ gateReq.pc \in {"auth", "lookup", "next"} \/ gateReq.ran
          => /\ Truthy(gateReq.header)
             /\ replaceBearer(gateReq.header.s) # <<>>
    /\ (gateReq.pc = "done" /\ ~Truthy(gateReq.header)) => GateRefused(401)
    /\ (gateReq.pc = "done" /\ gateReq.token = <<>>) => GateRefused(401)
    /\ (gateReq.auth # Null /\ (gateReq.auth.error # Null \/ gateReq.auth.user = Null))
          => GateRefused(401)
    /\ (gateReq.lookup # Null
        /\ (gateReq.lookup.error # Null \/ gateReq.lookup.data = Null))
          => GateRefused(403)
    /\ (gateReq.lookup # Null /\ gateReq.lookup.data # Null
        /\ gateReq.lookup.data.role # "organizer")
          => GateRefused(403)

\* a valid credential of an identity whose role is "member" was answered 403
C16_MemberForbidden ==
    /\ GateRefused(403)
    /\ gateReq.lookup # Null /\ gateReq.lookup.data # Null
    /\ gateReq.lookup.data.role = "member"

\* the cookie values a request may carry
CookiesSent == ForgedCookies \cup {randomUUID(n) : n \in 1..MaxIssued}

\* a request without the cookie gets a fresh id, set as an httpOnly,
\* sameSite=lax cookie that lasts one year
C17FreshIdIssued(c, production) ==
    CookieRequest(c, Undefined, production) =>
        /\ ckIssued' = ckIssued + 1
        /\ \A n \in 1..ckIssued : ckUserId'[c] # randomUUID(n)
        /\ ckSetCookie' # Null
        /\ ckSetCookie'.name = "userId" /\ ckSetCookie'.value = ckUserId'[c]
        /\ ckSetCookie'.options.httpOnly /\ ckSetCookie'.options.sameSite = "lax"
        /\ ckSetCookie'.options.maxAgeSeconds = 365 * 86400

\* a request carrying this cookie is handled under its value, none being set
C17CookieKept(c, cookie, production) ==
    CookieRequest(c, cookie, production) =>
        ckUserId'[c] = cookie /\ ckSetCookie' = Null /\ ckIssued' = ckIssued

\* C17 as stated: every request that carries a userId cookie is handled under
\* the cookie's value and gets no new cookie; one without gets a fresh id.
C17_AnyCookieKept ==
    [][\A c \in Clients, production \in BOOLEAN :
          /\ C17FreshIdIssued(c, production)
          /\ \A cookie \in CookiesSent : C17CookieKept(c, cookie, production)]_vars

\* C17, amended: every request that carries a non-empty userId cookie is
\* handled under the cookie's value and gets no new cookie; one without gets a
\* fresh id in an httpOnly, sameSite=lax, one-year cookie; a client returning
\* the cookie it holds is handled under the same userId as before.
C17_NonEmptyCookieKept ==
    [][\A c \in Clients, production \in BOOLEAN :
          /\ C17FreshIdIssued(c, production)
          /\ \A cookie \in CookiesSent \ {JStr(<<>>)} :
                C17CookieKept(c, cookie, production)
          /\ (/\ CookieRequest(c, ckJar[c], production)
              /\ ckJar[c] # Undefined /\ ckUserId[c] = ckJar[c])
                => ckUserId'[c] = ckUserId[c] /\ ckJar'[c] = ckJar[c]]_vars

\* a client was issued an id and its next request, returning the cookie, was
\* handled under that id with no cookie set
C17_ReturnedCookieHonoured ==
    /\ ckIssued = 1
    /\ ckJar["c1"] = randomUUID(1) /\ ckUserId["c1"] = randomUUID(1)
    /\ ckSetCookie = Null

\* a body field that is missing, empty or only white space
BlankField(v) == v = Undefined \/ (v.t = "string" /\ trim(v.s) = <<>>)

\* C18: a POST comment whose authorName or commentText is missing, empty or
\* only white space is answered 400 and stores no comment.
C18_BlankFieldsRejected ==
    [][\A eventId \in CommentEventIdParams, authorName \in AuthorNameBodies,
          commentText \in CommentTextBodies :
          (/\ res'.op = "postComment"
           /\ PostComment(eventId, authorName, commentText, "ok", "ok")
           /\ (BlankField(authorName) \/ BlankField(commentText)))
          => res'.status = 400 /\ commentsFile'.data = commentsFile.data]_vars

\* the number of times record c occurs in the list cs
CountIn(cs, c) == Cardinality({k \in 1..Len(cs) : cs[k] = c})

\* comment c belongs to the event that :eventId names
OfRequestedEvent(c, eventId) ==
    /\ c.event_id.t = "number"
    /\ parseInt(JStr(eventId)).t = "number"
    /\ c.event_id.x10 = parseInt(JStr(eventId)).x10

C20_UnknownIdChangesNothing ==
    [][\A commentId \in CommentIdParams, rd \in FsAny, wr \in FsAny :
          (/\ res'.op = "deleteComment"
           /\ DeleteComment(commentId, rd, wr)
           /\ \A k \in 1..Len(commentsFile.data) :
                 ~StrictEq(JInt(commentsFile.data[k].id), parseInt(JStr(commentId))))
          => res'.status = 200 /\ commentsFile'.data = commentsFile.data]_vars

\* C21: every request eventually receives a response, also when a persistence
\* call rejects instead of returning an error object
C21_EveryRequestAnswered ==
    \A i \in 1..MaxAnswerRequests : <>(intReq[i].pc = "done")

\* C22: a create or update request of the organizer router that lacks a
\* required field is answered 400 and writes nothing to the store
C22_MissingFieldRejected ==
    [][\A outcome \in StoreOutcomes, id \in OrgIdParams, name \in OrgTextBodies,
          role \in OrgTextBodies, n \in OrgNumberBodies, amount \in OrgNumberBodies :
          (/\ res'.op \in {"postCommittee", "putCommittee", "postExpense", "putExpense"}
           /\ \/ /\ Undefined \in {name, role}
                 /\ \/ PostCommittee(name, role, outcome)
                    \/ PutCommittee(id, name, role, outcome)
              \/ /\ Undefined \in {n, name, amount}
                 /\ \/ PostExpense(n, name, amount, outcome)
                    \/ PutExpense(id, n, name, amount, outcome))
          => /\ res'.status = 400
             /\ UNCHANGED orgVars]_vars

PassesFilters(e) ==
    /\ uiShowSaved => listIncludes(uiSavedEvents, getEventId(e))
    /\ matchesFilters(e, uiSearchTerm, uiSelectedCategories)

StatusRank(e) == statusOrder(getEventStatus(e.start_time, e.end_time, uiRenderedAt))

\* C23: the displayed list is ordered by status rank (On Going, Up Coming,
\* Ended) and within a status by ascending start_time, and holds exactly the
\* events that pass the saved, search and category filters, each once
C23_SortedByStatusThenStart ==
    /\ \A j, k \in 1..Len(uiFiltered) :
          j < k =>
              \/ StatusRank(uiFiltered[j]) < StatusRank(uiFiltered[k])
              \/ /\ StatusRank(uiFiltered[j]) = StatusRank(uiFiltered[k])
                 /\ uiFiltered[j].start_time <= uiFiltered[k].start_time
    /\ \A e \in EventRows :
          Cardinality({k \in 1..Len(uiFiltered) : uiFiltered[k] = e})
              = IF listIncludes(uiEvents, e) /\ PassesFilters(e) THEN 1 ELSE 0

C23_OnGoingBeforeEarlierEnded ==
    /\ Len(uiFiltered) = 2
    /\ StatusRank(uiFiltered[1]) = 0 /\ StatusRank(uiFiltered[2]) = 2
    /\ uiFiltered[1].start_time > uiFiltered[2].start_time
    /\ uiEvents = <<uiFiltered[2], uiFiltered[1]>>

WithId(cs, id) == {k \in 1..Len(cs) : StrictEq(JInt(cs[k].id), id)}

C25_UnattendCancelsAttend ==
    [][\A eventId \in EventIdParams, userName \in UserNameBodies :
          (/\ res.op = "attend" /\ res.status = 201
           /\ userNameCheck(userName) = "pass"
           /\ res.body.user_name = trim(userName.s)
           /\ res.body.event_id = JsonNumber(parseInt(JStr(eventId)))
           /\ res'.op = "unattend"
           /\ DeleteAttend(eventId, userName, "ok", "ok"))
          => /\ \A k \in 1..Len(attendanceFile'.data) :
                   ~(/\ StrictEq(attendanceFile'.data[k].event_id, parseInt(JStr(eventId)))
                     /\ attendanceFile'.data[k].user_name = trim(userName.s))
             /\ ~checkAttendanceHandler(attendanceFile', eventId, trim(userName.s),
                                        "ok").body.isAttending]_vars

\* C26: an accepted POST of a comment leaves every comment stored before it
\* in place and unchanged, also when the read of the store file failed
C26_AcceptedPostKeepsStored ==
    [][\A eventId \in CommentEventIdParams, authorName \in AuthorNameBodies,
          commentText \in CommentTextBodies, rd \in FsAny, wr \in FsAny :
          (/\ res'.op = "postComment" /\ res'.status = 201
           /\ PostComment(eventId, authorName, commentText, rd, wr))
          => /\ Len(commentsFile'.data) >= Len(commentsFile.data)
             /\ \A k \in 1..Len(commentsFile.data) :
                   commentsFile'.data[k] = commentsFile.data[k]]_vars

\* C27: whenever no check request is in flight, hasRated equals the server's
\* answer for the trimmed userName entered at that moment
C27_FlagMatchesServerAnswer ==
    (rsOpen /\ rsChecks = <<>> /\ rsPost = Null)
    => rsHasRated = checkRatingHandler(ratingsFile, sectionEventId, trim(rsUserName),
                                       "ok").body.hasRated

\* C28: a rating POST is sent only while the event is Ended, hasRated is
\* false, the trimmed userName is not empty and the selected rating is one of
\* 1..5, and never after a rating POST of the section has succeeded
C28_RatingPostGated ==
    [][(rsPost = Null /\ rsPost' # Null)
          => /\ getEventStatus(sectionEvent.start_time, sectionEvent.end_time, now)
                    = "Ended"
             /\ ~rsHasRated
             /\ trim(rsUserName) # <<>>
             /\ rsSelectedRating \in {JInt(star) : star \in 1..5}
             /\ ~rsSucceeded]_vars

\* the list has no id twice
NoDuplicates(xs) == \A j, k \in 1..Len(xs) : xs[j] = xs[k] => j = k

\* C29: starting from an empty list, savedEvents never holds an id twice and
\* holds an id exactly when toggleSave was called for it an odd number of
\* times; once the effect on [savedEvents] has run, the savedEvents cookie
\* parses to exactly that list, and there is no cookie when the list is empty
C29_SavedListAndCookie ==
    /\ NoDuplicates(uiSavedEvents)
    /\ \A id \in DOMAIN uiToggles :
          listIncludes(uiSavedEvents, id) <=> uiToggles[id] = 1
    /\ ~uiEffectPending =>
          IF uiSavedEvents = <<>> THEN uiCookie = Undefined
          ELSE uiCookie.t = "string" /\ parse(uiCookie.s) = uiSavedEvents

\* C29 witness: one event saved and removed again, another saved and kept,
\* and the cookie written after the last of these calls
C29_SavedRemovedAndKept ==
    /\ ~uiEffectPending /\ uiCookie # Undefined
    /\ \E a, b \in DOMAIN uiToggles :
          /\ uiToggles[a] = 2 /\ uiToggles[b] = 1
          /\ uiSavedEvents = <<b>>

\* C30: POST /interests/me removes stored interests only for a body whose
\* categories is an array: a request without a categories array is never
\* answered with success while rows stored before it are removed
C30_DeleteOnlyForArray ==
    [][\A i \in 1..Len(intReq) :
          (/\ Len(intReq') >= i
           /\ intReq[i].kind = "post" /\ intReq[i].pc = "new"
           /\ intReq'[i].pc = "done"
           /\ intReq[i].body.t # "array")
          => ~(intReq'[i].status = 200 /\ intRows' # intRows)]_vars

====
